---- MODULE Spec2Model ----
(***************************************************************************)
(* LapLens: telemetry segmentation and derived-metrics engine.             *)
(*                                                                         *)
(* Units.  Time is counted in ticks of 0.01 s (lap_time 90.000 s = 9000),  *)
(* distance in decimetres (2399.9 m = 23999), so that the thresholds of    *)
(* config.py and story_generator.py are whole numbers.  A missing value    *)
(* (pandas NaT / NaN) is the value NaT resp. NaN.                          *)
(***************************************************************************)
EXTENDS Integers, Sequences, FiniteSets, TLC

VARIABLES
    pc,            \* position in the pipeline
    raw,           \* the table as loaded (the caller's input, never written)
    track,         \* TelemetryProcessor.track_name
    cols,          \* the columns of the telemetry table
    df,            \* the telemetry table, a sequence of rows
    lap_times,     \* LapRecord table
    sector_times,  \* SectorRecord table
    cv,            \* calculate_consistency_score: coefficient of variation
    score,         \* calculate_consistency_score: score before rounding
    story,         \* the fields of the Story object computed so far
    vehicle_id,    \* a vehicle identifier, a sequence of characters
    vehicle        \* what parse_vehicle_id / get_vehicle_display_name returned

vars == <<pc, raw, track, cols, df, lap_times, sector_times, cv, score, story,
          vehicle_id, vehicle>>

\* the variables of the vehicle identification
identity == <<vehicle_id, vehicle>>

\* the variables of the Narrative/Scoring Engine
scoring == <<cv, score, story>>

-----------------------------------------------------------------------------
(* Bounds of the model *)

MaxRows == 3          \* rows of a session's telemetry table
MaxSectorRows == 1    \* rows of a table handed to assign_sectors alone
MaxTimedRows == 2     \* rows of a table handed to calculate_sector_times alone
MaxCv == 1600         \* largest cv fed to the score mapping, in 0.01 %
MaxLapNo == 5         \* largest lap number of a LapRecord table of the engine
MaxOptLaps == 2       \* largest lap number of a table handed to find_optimal_lap
MaxInsightLaps == 2   \* laps of a table handed to generate_sector_narrative alone
MaxAdviceLaps == 2    \* laps of a sector table handed to generate_recommendations
MaxRiskRows == 24     \* rows of a telemetry table handed to calculate_risk_index
                      \* (from 21 rows on, one heavy row scores below the cap)
MaxDigits == 3        \* longest run of digits in a vehicle identifier

-----------------------------------------------------------------------------
(* config.py *)

BRAKE_THRESHOLD == 20
HEAVY_BRAKE_THRESHOLD == 50
THROTTLE_FULL_THRESHOLD == 90
MIN_SPEED == 0
LAP_DISTANCE_THRESHOLD == 100
ERRONEOUS_LAP_NUMBER == 32768

\* metres (config.py) to decimetres (the model's distance unit)
Dm(m) == m * 10

\* config.SECTORS: track -> ordered (name, start, end); "default" is None,
\* written as the empty table.
SECTORS ==
    [t \in {"Barber", "COTA", "default"} |->
        CASE t = "Barber" -> << [name |-> "S1.a", start |-> 0,    end |-> 400],
                                [name |-> "S1.b", start |-> 400,  end |-> 800],
                                [name |-> "S2.a", start |-> 800,  end |-> 1200],
                                [name |-> "S2.b", start |-> 1200, end |-> 1600],
                                [name |-> "S3.a", start |-> 1600, end |-> 2000],
                                [name |-> "S3.b", start |-> 2000, end |-> 2400] >>
          [] t = "COTA"   -> << [name |-> "S1.a", start |-> 0,    end |-> 900],
                                [name |-> "S1.b", start |-> 900,  end |-> 1800],
                                [name |-> "S2.a", start |-> 1800, end |-> 2700],
                                [name |-> "S2.b", start |-> 2700, end |-> 3600],
                                [name |-> "S3.a", start |-> 3600, end |-> 4500],
                                [name |-> "S3.b", start |-> 4500, end |-> 5513] >>
          [] OTHER        -> << >> ]

\* TelemetryProcessor.__init__: config.SECTORS.get(track_name, SECTORS["default"])
Sectors(t) == IF t \in DOMAIN SECTORS THEN SECTORS[t] ELSE SECTORS["default"]

-----------------------------------------------------------------------------
(* Missing values *)

NaT == -1      \* pd.to_datetime(..., errors='coerce') of an unparseable stamp
NaN == -2      \* a float that is not a number (a time difference with NaT)

-----------------------------------------------------------------------------
(* Helpers on sequences *)

Range(s) == {s[i] : i \in DOMAIN s}

SetMax(S) == CHOOSE x \in S : \A y \in S : y <= x
SetMin(S) == CHOOSE x \in S : \A y \in S : x <= y

\* the subsequence of s at the indices (ascending) satisfying Keep
Indices(s, Keep(_)) == {i \in DOMAIN s : Keep(s[i])}

RECURSIVE AscSeq(_)
\* a finite set of integers as an ascending sequence: sorted(...)
AscSeq(S) ==
    IF S = {} THEN << >>
    ELSE LET m == SetMin(S) IN <<m>> \o AscSeq(S \ {m})

RECURSIVE PickSeq(_, _)
\* rows of s at the ascending index sequence idx (boolean-mask selection)
PickSeq(s, idx) ==
    IF idx = << >> THEN << >>
    ELSE <<s[Head(idx)]>> \o PickSeq(s, Tail(idx))

Select(s, Keep(_)) == PickSeq(s, AscSeq(Indices(s, Keep)))

-----------------------------------------------------------------------------
(* Signal Normalizer: data_loader.py *)

DistCol == "Laptrigger_lapdist_dls"

\* Series.max() of the distance column
MaxDistance(d) == SetMax({d[i].dist : i \in DOMAIN d})

\* a crossing test in which the first row's predecessor is the last row
LapCrossing_Wrapped(d, i) ==
    LET prev == IF i > 1 THEN i - 1 ELSE Len(d)
    IN  /\ d[i].dist < Dm(LAP_DISTANCE_THRESHOLD)
        /\ d[prev].dist > MaxDistance(d) - Dm(LAP_DISTANCE_THRESHOLD)

\* the crossing test shared by clean_lap_numbers and detect_laps:
\* (distance < T) & (distance.shift(1) > distance.max() - T); shift(1) is NaN
\* at the first row, and a comparison with NaN is False.
LapCrossing(d, i) ==
    /\ i > 1
    /\ d[i].dist < Dm(LAP_DISTANCE_THRESHOLD)
    /\ d[i - 1].dist > MaxDistance(d) - Dm(LAP_DISTANCE_THRESHOLD)

\* a lap id counting the crossings before the row only
LapDetected_StrictlyBefore(d, i) ==
    Cardinality({j \in 1..(i - 1) : LapCrossing(d, j)}) + 1

\* lap_crossing.cumsum() + 1: the running count includes the row itself
LapDetected(d, i) == Cardinality({j \in 1..i : LapCrossing(d, j)}) + 1

\* clean_lap_numbers renumbering every row once a sentinel is found
CleanLapNumbers_AllRows(c, d) ==
    IF "lap" \in c /\ DistCol \in c
       /\ \E i \in DOMAIN d : d[i].lap = ERRONEOUS_LAP_NUMBER
    THEN [i \in DOMAIN d |-> [d[i] EXCEPT !.lap = LapDetected(d, i)]]
    ELSE d

\* TelemetryDataLoader.clean_lap_numbers
CleanLapNumbers(c, d) ==
    IF "lap" \notin c THEN d
    ELSE IF \E i \in DOMAIN d : d[i].lap = ERRONEOUS_LAP_NUMBER
         THEN IF DistCol \in c
              THEN [i \in DOMAIN d |->
                       IF d[i].lap = ERRONEOUS_LAP_NUMBER
                       THEN [d[i] EXCEPT !.lap = LapDetected(d, i)]
                       ELSE d[i]]
              ELSE d
         ELSE d

\* the time_normalized column before sorting: the parsed raw stamp (NaT when
\* unparseable), or the row index when the table has no time column
WithTimeNormalized(c, d) ==
    [i \in DOMAIN d |->
        [d[i] EXCEPT !.tn = IF "meta_time" \in c THEN d[i].ts ELSE i - 1]]

\* df.sort_values('time_normalized'): ascending, NaT last in their original
\* order; the default sort kind is not stable, so rows with equal times may
\* come out in any order.  NextRows is the set of indices (of those left)
\* that may come first.
NextRows(d, left) ==
    LET timed == {i \in left : d[i].tn # NaT}
    IN  IF timed # {}
        THEN {i \in timed : \A j \in timed : d[i].tn <= d[j].tn}
        ELSE {SetMin(left)}

RECURSIVE SortOrders(_, _)
SortOrders(d, left) ==
    IF left = {} THEN {<< >>}
    ELSE UNION { { <<d[i]>> \o rest : rest \in SortOrders(d, left \ {i}) } :
                 i \in NextRows(d, left) }

SortValues(d) == SortOrders(d, DOMAIN d)

\* TelemetryDataLoader.normalize_timestamps: the set of possible results
NormalizeTimestamps(c, d) == SortValues(WithTimeNormalized(c, d))

-----------------------------------------------------------------------------
(* Lap Segmenter, Sector Classifier, Aggregator: telemetry_processor.py *)

\* detect_laps replacing the lap id of the sentinel rows alone
DetectLaps_SentinelRows(c, d) ==
    IF DistCol \notin c
    THEN IF "lap" \notin c THEN [i \in DOMAIN d |-> [d[i] EXCEPT !.lap = 1]]
         ELSE d
    ELSE [i \in DOMAIN d |->
             IF "lap" \notin c \/ d[i].lap = ERRONEOUS_LAP_NUMBER
             THEN [d[i] EXCEPT !.lap = LapDetected(d, i)]
             ELSE d[i]]

\* TelemetryProcessor.detect_laps
DetectLaps(c, d) ==
    IF DistCol \notin c
    THEN IF "lap" \notin c THEN [i \in DOMAIN d |-> [d[i] EXCEPT !.lap = 1]]
         ELSE d
    ELSE IF "lap" \notin c \/ \E i \in DOMAIN d : d[i].lap = ERRONEOUS_LAP_NUMBER
         THEN [i \in DOMAIN d |-> [d[i] EXCEPT !.lap = LapDetected(d, i)]]
         ELSE d

RECURSIVE FirstSector(_, _)
\* get_sector: the first range with start <= distance < end, else ""
FirstSector(table, dist) ==
    IF table = << >> THEN ""
    ELSE IF Dm(Head(table).start) <= dist /\ dist < Dm(Head(table).end)
         THEN Head(table).name
         ELSE FirstSector(Tail(table), dist)

\* get_sector falling back to the first sector instead of the last
GetSector_FirstOnOverrun(table, dist) ==
    LET s == FirstSector(table, dist)
    IN  IF s # "" THEN s ELSE table[1].name

\* get_sector of assign_sectors: the last sector if beyond all
GetSector(table, dist) ==
    LET s == FirstSector(table, dist)
    IN  IF s # "" THEN s ELSE table[Len(table)].name

\* TelemetryProcessor.assign_sectors
AssignSectors(t, c, d) ==
    IF DistCol \notin c \/ Sectors(t) = << >>
    THEN [i \in DOMAIN d |-> [d[i] EXCEPT !.sector = "S1.a"]]
    ELSE [i \in DOMAIN d |-> [d[i] EXCEPT !.sector = GetSector(Sectors(t), d[i].dist)]]

\* (end_time - start_time).total_seconds() of a group of rows
TimeSpan(g) ==
    IF g[1].tn = NaT \/ g[Len(g)].tn = NaT THEN NaN
    ELSE g[Len(g)].tn - g[1].tn

\* sorted(df['lap'].unique())
LapNumbers(d) == AscSeq({d[i].lap : i \in DOMAIN d})

\* TelemetryProcessor.calculate_lap_times
CalculateLapTimes(d) ==
    LET laps == LapNumbers(d)
    IN  [k \in DOMAIN laps |->
            LET lap_num == laps[k]
                IsLap(r) == r.lap = lap_num
                lap_data == Select(d, IsLap)
            IN  [lap |-> lap_num, lap_time |-> TimeSpan(lap_data),
                 records |-> Len(lap_data)]]

\* Series.min(): the least value that is not NaN, NaN when there is none
NanMin(S) == IF S \ {NaN} = {} THEN NaN ELSE SetMin(S \ {NaN})

\* a - b on floats
NanSub(a, b) == IF a = NaN \/ b = NaN THEN NaN ELSE a - b

\* calculate_lap_deltas taking the first lap as reference instead of the best
CalculateLapDeltas_FirstLapRef(lt) ==
    IF lt = << >> THEN lt
    ELSE [i \in DOMAIN lt |->
            [lap |-> lt[i].lap, lap_time |-> lt[i].lap_time,
             records |-> lt[i].records,
             delta_to_best |-> NanSub(lt[i].lap_time, lt[1].lap_time)]]

\* TelemetryProcessor.calculate_lap_deltas with reference_lap = None
CalculateLapDeltas(lt) ==
    IF lt = << >> THEN lt
    ELSE LET ref_time == NanMin({lt[i].lap_time : i \in DOMAIN lt})
         IN  [i \in DOMAIN lt |->
                [lap |-> lt[i].lap, lap_time |-> lt[i].lap_time,
                 records |-> lt[i].records,
                 delta_to_best |-> NanSub(lt[i].lap_time, ref_time)]]

\* the sector names calculate_sector_times iterates over
SectorNames(t) ==
    IF Sectors(t) = << >> THEN <<"S1.a">>
    ELSE [k \in DOMAIN Sectors(t) |-> Sectors(t)[k].name]

RECURSIVE SectorStats(_, _, _, _)
\* the loop of calculate_sector_times over laps[li..] and names[si..]
SectorStats(t, d, li, si) ==
    LET laps == LapNumbers(d)
        names == SectorNames(t)
    IN  IF li > Len(laps) THEN << >>
        ELSE IF si > Len(names) THEN SectorStats(t, d, li + 1, 1)
        ELSE LET InGroup(r) == r.lap = laps[li] /\ r.sector = names[si]
                 sector_data == Select(d, InGroup)
             IN  IF sector_data = << >> THEN SectorStats(t, d, li, si + 1)
                 ELSE << [lap |-> laps[li], sector |-> names[si],
                          sector_time |-> TimeSpan(sector_data)] >>
                      \o SectorStats(t, d, li, si + 1)

\* calculate_sector_times grouping by the labels found in the data, as
\* df.groupby(['lap', 'sector']) would
CalculateSectorTimes_GroupBy(t, d) ==
    LET firsts == {i \in DOMAIN d :
                     \A j \in 1..(i - 1) :
                        ~(d[j].lap = d[i].lap /\ d[j].sector = d[i].sector)}
        idx == AscSeq(firsts)
    IN  [k \in DOMAIN idx |->
            LET InGroup(r) == r.lap = d[idx[k]].lap /\ r.sector = d[idx[k]].sector
            IN  [lap |-> d[idx[k]].lap, sector |-> d[idx[k]].sector,
                 sector_time |-> TimeSpan(Select(d, InGroup))]]

\* TelemetryProcessor.calculate_sector_times
CalculateSectorTimes(t, d) == SectorStats(t, d, 1, 1)

\* calculate_sector_deltas taking the best time over all sectors
CalculateSectorDeltas_GlobalBest(st) ==
    IF st = << >> THEN st
    ELSE LET best == NanMin({st[j].sector_time : j \in DOMAIN st})
         IN  [i \in DOMAIN st |->
                [lap |-> st[i].lap, sector |-> st[i].sector,
                 sector_time |-> st[i].sector_time,
                 delta_to_best |-> NanSub(st[i].sector_time, best)]]

\* TelemetryProcessor.calculate_sector_deltas
CalculateSectorDeltas(st) ==
    IF st = << >> THEN st
    ELSE LET best_sectors(s) ==
                 NanMin({st[j].sector_time : j \in {k \in DOMAIN st : st[k].sector = s}})
         IN  [i \in DOMAIN st |->
                [lap |-> st[i].lap, sector |-> st[i].sector,
                 sector_time |-> st[i].sector_time,
                 delta_to_best |-> NanSub(st[i].sector_time, best_sectors(st[i].sector))]]

-----------------------------------------------------------------------------
(* Narrative/Scoring Engine: story_generator.py                            *)
(*                                                                         *)
(* cv is counted in units of 0.0001 %, a score in units of 1/240000 point, *)
(* in which the three linear branches of the mapping are whole numbers.    *)
(* A returned (rounded) score is counted in tenths of a point.             *)

CvUnit == 10000        \* cv units per percent
ScoreUnit == 240000    \* score units per point

Tenths(t) == 10 * t    \* t tenths of a second, in ticks
Hundredths(h) == h     \* h hundredths of a second, in ticks

Max(a, b) == IF a >= b THEN a ELSE b
Min(a, b) == IF a <= b THEN a ELSE b
Abs(a) == IF a < 0 THEN -a ELSE a

RECURSIVE SumSeq(_)
SumSeq(q) == IF q = << >> THEN 0 ELSE Head(q) + SumSeq(Tail(q))

RECURSIVE SqrtBetween(_, _, _)
\* the largest r in lo..hi with r * r <= x
SqrtBetween(x, lo, hi) ==
    IF lo = hi THEN lo
    ELSE LET mid == (lo + hi + 1) \div 2
         IN  IF mid * mid <= x THEN SqrtBetween(x, mid, hi)
             ELSE SqrtBetween(x, lo, mid - 1)

\* floor of the square root, for 0 <= x < 2^31
ISqrt(x) == SqrtBetween(x, 0, 46340)

\* lap_times['lap_time'].values, lap_times['lap'].values
Times(lt) == [i \in DOMAIN lt |-> lt[i].lap_time]
Laps(lt) == [i \in DOMAIN lt |-> lt[i].lap]

\* n^2 times the sum of squared deviations from the mean
SqDev(x) ==
    LET n == Len(x)
        S == SumSeq(x)
    IN  SumSeq([i \in DOMAIN x |-> (n * x[i] - S) * (n * x[i] - S)])

\* cv = (np.std(times) / np.mean(times)) * 100, truncated to the cv unit
\* (np.std is the population deviation); 0/0 is NaN
CoefficientOfVariation(x) ==
    LET n == Len(x)
        S == SumSeq(x)
    IN  IF S = 0 THEN NaN
        ELSE (ISqrt((100 * SqDev(x)) \div n) * (CvUnit * 10)) \div S

\* the score mapping with its third branch starting half a point lower
ScoreOfCv_StepAtTwo(c) ==
    IF c = NaN THEN 0
    ELSE IF c < CvUnit \div 2 THEN 10 * ScoreUnit
    ELSE IF c < 2 * CvUnit
         THEN 10 * ScoreUnit - ((c - CvUnit \div 2) * 25 * (ScoreUnit \div CvUnit)) \div 15
    ELSE IF c < 10 * CvUnit
         THEN 7 * ScoreUnit - ((c - 2 * CvUnit) * 5 * (ScoreUnit \div CvUnit)) \div 8
    ELSE Max(0, (25 * ScoreUnit) \div 10
                   - ((c - 10 * CvUnit) * 25 * (ScoreUnit \div CvUnit)) \div 50)

\* the piecewise score mapping; every comparison with NaN is False and
\* max(0.0, nan) is 0.0
ScoreOfCv(c) ==
    IF c = NaN THEN 0
    ELSE IF c < CvUnit \div 2 THEN 10 * ScoreUnit
    ELSE IF c < 2 * CvUnit
         THEN 10 * ScoreUnit - ((c - CvUnit \div 2) * 25 * (ScoreUnit \div CvUnit)) \div 15
    ELSE IF c < 10 * CvUnit
         THEN (75 * ScoreUnit) \div 10 - ((c - 2 * CvUnit) * 5 * (ScoreUnit \div CvUnit)) \div 8
    ELSE Max(0, (25 * ScoreUnit) \div 10
                   - ((c - 10 * CvUnit) * 25 * (ScoreUnit \div CvUnit)) \div 50)

\* the rating bands, on the score before rounding
RatingOfScore(sc) ==
    IF sc >= (85 * ScoreUnit) \div 10 THEN "Excellent"
    ELSE IF sc >= 7 * ScoreUnit THEN "Very Good"
    ELSE IF sc >= (55 * ScoreUnit) \div 10 THEN "Good"
    ELSE IF sc >= 4 * ScoreUnit THEN "Fair"
    ELSE "Needs Improvement"

\* round(x, 1) of a score >= 0, in tenths.  A score exactly halfway between
\* two tenths goes where its float representation falls: either way.
Round1(sc) ==
    LET q == ScoreUnit \div 10
        fl == sc \div q
        rem == sc % q
    IN  IF 2 * rem < q THEN {fl}
        ELSE IF 2 * rem > q THEN {fl + 1}
        ELSE {fl, fl + 1}

\* lines 247-265 of calculate_consistency_score: the possible results for a
\* score sc reached from the lap times x with coefficient of variation c
\* (std_dev, a rounded square root, is left out of the record)
ConsistencyResults(x, c, sc) ==
    { [score |-> r, rating |-> RatingOfScore(sc),
       range |-> SetMax(Range(x)) - SetMin(Range(x)),
       coefficient_of_variation |-> c] : r \in Round1(sc) }

\* RaceStoryGenerator.calculate_consistency_score: the possible results
CalculateConsistencyScore(lt) ==
    IF Len(lt) < 3
    THEN { [score |-> 0, rating |-> "N/A", range |-> 0] }
    ELSE LET c == CoefficientOfVariation(Times(lt))
         IN  ConsistencyResults(Times(lt), c, ScoreOfCv(c))

\* np.polyfit(laps, times, 1)[0] as the fraction num / den, den > 0
Slope(x, y) ==
    LET n == Len(x)
        sx == SumSeq(x)
        sy == SumSeq(y)
        sxy == SumSeq([i \in DOMAIN x |-> x[i] * y[i]])
        sxx == SumSeq([i \in DOMAIN x |-> x[i] * x[i]])
    IN  [num |-> n * sxy - sx * sy, den |-> n * sxx - sx * sx]

\* no stint: None
NoStint == [start_lap |-> 0, end_lap |-> 0, total_time |-> 0, laps |-> 0]

RECURSIVE StintScan(_, _, _, _)
\* the loop of _find_fastest_stint from window i on; best is the best window
\* start so far (0: none); a window is compared by its total time, which
\* orders the same as its mean
StintScan(lt, min_laps, i, best) ==
    LET total(k) == SumSeq([j \in 1..min_laps |-> lt[k + j - 1].lap_time])
    IN  IF i > Len(lt) - min_laps + 1 THEN best
        ELSE IF best = 0 \/ total(i) < total(best)
             THEN StintScan(lt, min_laps, i + 1, i)
             ELSE StintScan(lt, min_laps, i + 1, best)

\* RaceStoryGenerator._find_fastest_stint (lt sorted by lap)
FindFastestStint(lt, min_laps) ==
    IF Len(lt) < min_laps THEN NoStint
    ELSE LET b == StintScan(lt, min_laps, 1, 0)
         IN  [start_lap |-> lt[b].lap,
              end_lap |-> lt[b].lap + min_laps - 1,
              total_time |-> SumSeq([j \in 1..min_laps |-> lt[b + j - 1].lap_time]),
              laps |-> min_laps]

\* RaceStoryGenerator.analyze_performance_trajectory
AnalyzePerformanceTrajectory(lt) ==
    IF Len(lt) < 3
    THEN [trend |-> "insufficient_data", slope |-> [num |-> 0, den |-> 1],
          improvement_rate |-> [num |-> 0, den |-> 1]]
    ELSE LET slope == Slope(Laps(lt), Times(lt))
         IN  [trend |-> IF slope.num < -Tenths(1) * slope.den THEN "improving"
                        ELSE IF slope.num > Tenths(1) * slope.den THEN "declining"
                        ELSE "consistent",
              slope |-> slope,
              improvement_rate |-> [num |-> Abs(slope.num), den |-> slope.den],
              fastest_stint |-> FindFastestStint(lt, 3)]

\* idxmin taking the last row with the least lap time
IdxMin_Last(lt) ==
    SetMax({i \in DOMAIN lt : \A j \in DOMAIN lt : lt[i].lap_time <= lt[j].lap_time})

\* lap_times['lap_time'].idxmin(): the first row with the least lap time,
\* rows without a lap time skipped
IdxMin(lt) ==
    SetMin({i \in DOMAIN lt :
              /\ lt[i].lap_time # NaN
              /\ \A j \in DOMAIN lt :
                    lt[j].lap_time # NaN => lt[i].lap_time <= lt[j].lap_time})

\* idxmin() of a column without any value gives no label (it raises, or
\* returns NaN and lap_times.loc[NaN] raises): the call ends in an exception
IdxMinError == [type |-> "KeyError", lap |-> 0, improvement |-> 0]

\* no breakthrough moment: None
NoMoment == [type |-> "None", lap |-> 0, improvement |-> 0]

\* identify_breakthrough_moments asking for three laps
IdentifyBreakthroughMoments_ThreeLaps(lt) ==
    IF Len(lt) < 3 THEN NoMoment
    ELSE LET improvement(i) == NanSub(lt[i - 1].lap_time, lt[i].lap_time)
             breakthroughs == {i \in 2..Len(lt) :
                                 improvement(i) # NaN /\ improvement(i) > Tenths(3)}
         IN  IF breakthroughs = {}
             THEN IF \A i \in DOMAIN lt : lt[i].lap_time = NaN
                  THEN IdxMinError
                  ELSE [type |-> "best_lap", lap |-> lt[IdxMin(lt)].lap,
                        improvement |-> 0]
             ELSE [type |-> "breakthrough", lap |-> lt[SetMin(breakthroughs)].lap,
                   improvement |-> improvement(SetMin(breakthroughs))]

\* identify_breakthrough_moments reporting the largest improvement instead
\* of the first one
IdentifyBreakthroughMoments_Largest(lt) ==
    IF Len(lt) < 2 THEN NoMoment
    ELSE LET improvement(i) == NanSub(lt[i - 1].lap_time, lt[i].lap_time)
             breakthroughs == {i \in 2..Len(lt) :
                                 improvement(i) # NaN /\ improvement(i) > Tenths(3)}
             largest == CHOOSE i \in breakthroughs :
                           \A j \in breakthroughs : improvement(j) <= improvement(i)
         IN  IF breakthroughs = {}
             THEN IF \A i \in DOMAIN lt : lt[i].lap_time = NaN
                  THEN IdxMinError
                  ELSE [type |-> "best_lap", lap |-> lt[IdxMin(lt)].lap,
                        improvement |-> 0]
             ELSE [type |-> "breakthrough", lap |-> lt[largest].lap,
                   improvement |-> improvement(largest)]

\* RaceStoryGenerator.identify_breakthrough_moments (lt sorted by lap)
IdentifyBreakthroughMoments(lt) ==
    IF Len(lt) < 2 THEN NoMoment
    ELSE LET improvement(i) == NanSub(lt[i - 1].lap_time, lt[i].lap_time)
             breakthroughs == {i \in 2..Len(lt) :
                                 improvement(i) # NaN /\ improvement(i) > Tenths(3)}
         IN  IF breakthroughs = {}
             THEN IF \A i \in DOMAIN lt : lt[i].lap_time = NaN
                  THEN IdxMinError
                  ELSE [type |-> "best_lap", lap |-> lt[IdxMin(lt)].lap,
                        improvement |-> 0]
             ELSE [type |-> "breakthrough", lap |-> lt[SetMin(breakthroughs)].lap,
                   improvement |-> improvement(SetMin(breakthroughs))]

\* the place of a sector name in string order, the order of a groupby index;
\* for the names of config.SECTORS it is the place in the track's table
SectorRank(name) ==
    CHOOSE k \in DOMAIN SECTORS["Barber"] : SECTORS["Barber"][k].name = name

\* best_sectors.index: the sectors of the table, in string order
SectorIndex(st) ==
    LET ranks == AscSeq({SectorRank(st[i].sector) : i \in DOMAIN st})
    IN  [k \in DOMAIN ranks |-> SECTORS["Barber"][ranks[k]].name]

RECURSIVE SortByGapDescending(_)
\* list.sort(key=gap, reverse=True): stable, equal gaps keep their order
SortByGapDescending(g) ==
    IF g = << >> THEN << >>
    ELSE LET m == SetMin({i \in DOMAIN g : \A j \in DOMAIN g : g[i].gap >= g[j].gap})
         IN  <<g[m]>> \o SortByGapDescending(
                 [k \in 1..(Len(g) - 1) |-> IF k < m THEN g[k] ELSE g[k + 1]])

RECURSIVE GapBreakdown(_, _, _, _)
\* the loop of find_optimal_lap over index[k..]
GapBreakdown(lt, st, index, k) ==
    IF k > Len(index) THEN << >>
    ELSE LET InSector(r) == r.sector = index[k]
             sector_data == Select(st, InSector)
             best_sector_time == NanMin({sector_data[i].sector_time : i \in DOMAIN sector_data})
             best_lap_num == lt[IdxMin(lt)].lap
             OfBestLap(r) == r.lap = best_lap_num
             best_lap_sector == Select(sector_data, OfBestLap)
             gap == NanSub(best_lap_sector[1].sector_time, best_sector_time)
         IN  (IF Len(best_lap_sector) > 0 /\ gap # NaN /\ gap > Hundredths(5)
              THEN << [sector |-> index[k], gap |-> gap] >>
              ELSE << >>)
             \o GapBreakdown(lt, st, index, k + 1)

\* the potential gain floored at 0
PotentialGain_Clamped(actual_best, optimal_time) == Max(0, actual_best - optimal_time)

\* potential_gain = actual_best - optimal_time
PotentialGain(actual_best, optimal_time) == actual_best - optimal_time

\* RaceStoryGenerator.find_optimal_lap
FindOptimalLap(lt, st) ==
    IF Len(st) = 0
    THEN [optimal_time |-> "None", actual_best |-> "None", potential_gain |-> 0,
          narrative |-> "insufficient"]
    ELSE LET index == SectorIndex(st)
             best_sectors == [k \in DOMAIN index |->
                                 NanMin({st[i].sector_time :
                                            i \in {j \in DOMAIN st : st[j].sector = index[k]}})]
             optimal_time == SumSeq([k \in DOMAIN best_sectors |->
                                        IF best_sectors[k] = NaN THEN 0
                                        ELSE best_sectors[k]])
             actual_best == NanMin({lt[i].lap_time : i \in DOMAIN lt})
             potential_gain == PotentialGain(actual_best, optimal_time)
         IN  [optimal_time |-> optimal_time,
              actual_best |-> actual_best,
              potential_gain |-> potential_gain,
              gap_breakdown |-> SortByGapDescending(GapBreakdown(lt, st, index, 1)),
              narrative |-> IF potential_gain > Tenths(1) THEN "potential"
                            ELSE "excellent"]

\* sector_times['sector'].unique(): the names in order of first appearance
UniqueSectors(st) ==
    LET firsts == {i \in DOMAIN st : \A j \in 1..(i - 1) : st[j].sector # st[i].sector}
        idx == AscSeq(firsts)
    IN  [k \in DOMAIN idx |-> st[idx[k]].sector]

\* the insight of one sector (times defined); avg_time as the quotient
\* num / den
SectorInsight(st, sector) ==
    LET times == {st[i].sector_time : i \in {j \in DOMAIN st : st[j].sector = sector}}
        InSector(r) == r.sector = sector
        sector_data == Select(st, InSector)
        best_time == SetMin(times)
        worst_time == SetMax(times)
        time_range == worst_time - best_time
    IN  [sector |-> sector,
         performance |-> IF time_range < Tenths(1) THEN "strength"
                         ELSE IF time_range < Tenths(3) THEN "neutral"
                         ELSE "weakness",
         consistency |-> IF time_range < Tenths(1) THEN "excellent"
                         ELSE IF time_range < Tenths(3) THEN "good"
                         ELSE "inconsistent",
         best_time |-> best_time,
         worst_time |-> worst_time,
         avg_time |-> [num |-> SumSeq([i \in DOMAIN sector_data |->
                                         sector_data[i].sector_time]),
                       den |-> Len(sector_data)],
         range |-> time_range]

RECURSIVE SortByRangeAscending(_)
\* the insights sorted by range, smallest first
SortByRangeAscending(g) ==
    IF g = << >> THEN << >>
    ELSE LET m == SetMin({i \in DOMAIN g : \A j \in DOMAIN g : g[i].range <= g[j].range})
         IN  <<g[m]>> \o SortByRangeAscending(
                 [k \in 1..(Len(g) - 1) |-> IF k < m THEN g[k] ELSE g[k + 1]])

RECURSIVE SortByRangeDescending(_)
\* insights.sort(key=range, reverse=True): stable, equal ranges keep their
\* order
SortByRangeDescending(g) ==
    IF g = << >> THEN << >>
    ELSE LET m == SetMin({i \in DOMAIN g : \A j \in DOMAIN g : g[i].range >= g[j].range})
         IN  <<g[m]>> \o SortByRangeDescending(
                 [k \in 1..(Len(g) - 1) |-> IF k < m THEN g[k] ELSE g[k + 1]])

\* RaceStoryGenerator.generate_sector_narrative
GenerateSectorNarrative(st) ==
    IF Len(st) = 0 THEN << >>
    ELSE LET names == UniqueSectors(st)
         IN  SortByRangeDescending([k \in DOMAIN names |-> SectorInsight(st, names[k])])

\* the strings generate_recommendations can append, by the rule appending them
\* (the text of a string is fixed by its rule and the values it formats)
RuleOfString ==
    [focus_sector |-> "sector", work_on_consistency |-> "consistency",
     reduce_risk |-> "risk", explore_limits |-> "risk",
     pace_declining |-> "trajectory", strong_performance |-> "default"]

\* lines 494-541 of generate_recommendations: the list before it is cut
MatchedRecommendations(st, trajectory, consistency, risk) ==
    LET sector_insights == IF Len(st) > 0 THEN GenerateSectorNarrative(st) ELSE << >>
        sector_based == IF Len(sector_insights) > 0 /\ sector_insights[1].range > Tenths(3)
                        THEN <<"focus_sector">> ELSE << >>
        consistency_based == IF consistency.score < 70
                             THEN <<"work_on_consistency">> ELSE << >>
        risk_based == IF risk.score > 80 /\ consistency.score < 60
                      THEN <<"reduce_risk">>
                      ELSE IF risk.score < 40 THEN <<"explore_limits">> ELSE << >>
        trajectory_based == IF trajectory.trend = "declining"
                            THEN <<"pace_declining">> ELSE << >>
        recommendations == sector_based \o consistency_based \o risk_based
                               \o trajectory_based
    IN  IF Len(recommendations) = 0 THEN <<"strong_performance">> ELSE recommendations

\* generate_recommendations returning every match
GenerateRecommendations_All(st, trajectory, consistency, risk) ==
    MatchedRecommendations(st, trajectory, consistency, risk)

\* RaceStoryGenerator.generate_recommendations
GenerateRecommendations(st, trajectory, consistency, risk) ==
    LET recommendations == MatchedRecommendations(st, trajectory, consistency, risk)
    IN  SubSeq(recommendations, 1, Min(3, Len(recommendations)))

-----------------------------------------------------------------------------
(* Braking metrics and the risk index.  A component score is counted in   *)
(* thousandths of a point, rounded down; the composite in units of 1/10000 *)
(* point.                                                                 *)

\* pd.cut(brake_intensity, bins=[0, BRAKE_THRESHOLD, HEAVY_BRAKE_THRESHOLD, inf]):
\* intervals closed on the right, NaN outside them
BrakingZone(b) ==
    IF b > 0 /\ b <= BRAKE_THRESHOLD THEN "None"
    ELSE IF b > BRAKE_THRESHOLD /\ b <= HEAVY_BRAKE_THRESHOLD THEN "Light"
    ELSE IF b > HEAVY_BRAKE_THRESHOLD THEN "Heavy"
    ELSE "NaN"

\* TelemetryProcessor.calculate_braking_intensity
CalculateBrakingIntensity(c, d) ==
    [i \in DOMAIN d |->
        LET b == IF {"pbrake_f", "pbrake_r"} \subseteq c
                 THEN (d[i].pbrake_f + d[i].pbrake_r) \div 2
                 ELSE IF "pbrake_f" \in c THEN d[i].pbrake_f
                 ELSE IF "pbrake_r" \in c THEN d[i].pbrake_r
                 ELSE 0
        IN  [d[i] EXCEPT !.brake_intensity = b, !.braking_zone = BrakingZone(b)]]

\* min(10.0, x) on a score in thousandths, without the cap
CapScore_Uncapped(x) == x

\* min(10.0, x) on a score in thousandths; min(10.0, nan) is 10.0
CapScore(x) == IF x = NaN THEN 10000 ELSE Min(10000, x)

\* braking_aggression before the cap: percent of rows above the heavy
\* threshold, times 2
BrakeRaw(d) ==
    (Cardinality({i \in DOMAIN d : d[i].brake_intensity > HEAVY_BRAKE_THRESHOLD})
        * 200000) \div Len(d)

\* throttle_aggression before the cap: percent of rows at full throttle, / 5
ThrottleRaw(d) ==
    (Cardinality({i \in DOMAIN d : d[i].ath > THROTTLE_FULL_THRESHOLD})
        * 20000) \div Len(d)

\* corner_variance before the cap: Speed.std() / Speed.mean() * 100 / 2, with
\* the sample deviation of pandas; NaN for one row and for a mean of 0.
\* The square root is taken at the finest decimal scale that fits.
CornerRaw(d) ==
    LET x == [i \in DOMAIN d |-> d[i].Speed]
        n == Len(x)
        S == SumSeq(x)
    IN  IF n < 2 \/ S = 0 THEN NaN
        ELSE LET v == SqDev(x) \div (n - 1)
                 k == IF v < 2000 THEN 1000 ELSE IF v < 200000 THEN 100
                      ELSE IF v < 20000000 THEN 10 ELSE 1
             IN  (ISqrt(k * k * v) * (50000 \div k)) \div S

\* the most that rounding down takes off a component: nothing off a
\* default, a NaN or a quotient without remainder, and off corner_variance
\* what the truncated square root loses
CornerSlack == 2

BrakeSlack(d) ==
    IF (Cardinality({i \in DOMAIN d : d[i].brake_intensity > HEAVY_BRAKE_THRESHOLD})
           * 200000) % Len(d) = 0 THEN 0 ELSE 1

ThrottleSlack(d) ==
    IF (Cardinality({i \in DOMAIN d : d[i].ath > THROTTLE_FULL_THRESHOLD})
           * 20000) % Len(d) = 0 THEN 0 ELSE 1

\* the score component each source channel feeds
ComponentChannel ==
    [braking_aggression |-> "brake_intensity", throttle_aggression |-> "ath",
     corner_variance |-> "Speed"]

\* the rating bands of the risk index, on the composite before rounding
RiskRating(r) ==
    IF r >= 80000 THEN "Very Aggressive"
    ELSE IF r >= 65000 THEN "Aggressive"
    ELSE IF r >= 50000 THEN "Balanced"
    ELSE IF r >= 35000 THEN "Conservative"
    ELSE "Very Conservative"

\* round(r, 1) of a composite r >= 0, in tenths; either way on a tie
RoundRisk(r) ==
    IF 2 * (r % 1000) < 1000 THEN {r \div 1000}
    ELSE IF 2 * (r % 1000) > 1000 THEN {r \div 1000 + 1}
    ELSE {r \div 1000, r \div 1000 + 1}

\* RaceStoryGenerator.calculate_risk_index: the possible results, the
\* composite lying between the one of the rounded-down components and the
\* one of the components with their slack
CalculateRiskIndex(c, d) ==
    IF Len(d) = 0
    THEN { [score |-> 0, rating |-> "N/A", components |-> << >>] }
    ELSE LET brake_score == IF "brake_intensity" \in c THEN CapScore(BrakeRaw(d)) ELSE 5000
             throttle_score == IF "ath" \in c THEN CapScore(ThrottleRaw(d)) ELSE 5000
             corner_score == IF "Speed" \in c THEN CapScore(CornerRaw(d)) ELSE 5000
             components ==
                 [name \in {nm \in DOMAIN ComponentChannel : ComponentChannel[nm] \in c} |->
                     CASE name = "braking_aggression" -> brake_score
                       [] name = "throttle_aggression" -> throttle_score
                       [] OTHER -> corner_score]
             brake_high == IF "brake_intensity" \in c
                           THEN CapScore(BrakeRaw(d) + BrakeSlack(d)) ELSE 5000
             throttle_high == IF "ath" \in c
                              THEN CapScore(ThrottleRaw(d) + ThrottleSlack(d)) ELSE 5000
             corner_high == IF "Speed" \in c /\ CornerRaw(d) # NaN
                            THEN CapScore(CornerRaw(d) + CornerSlack) ELSE corner_score
             risk_score == brake_score * 4 + throttle_score * 3 + corner_score * 3
             risk_high == brake_high * 4 + throttle_high * 3 + corner_high * 3
         IN  UNION { { [score |-> t, rating |-> RiskRating(r), components |-> components]
                       : t \in RoundRisk(r) } : r \in {risk_score, risk_high} }

-----------------------------------------------------------------------------
(* The score mapping of calculate_consistency_score on its own, fed every *)
(* cv from 0 to MaxCv hundredths of a percent.                            *)

InitScore ==
    /\ pc = "cv"
    /\ vehicle_id = << >> /\ vehicle = << >>
    /\ cv \in {(CvUnit \div 100) * k : k \in 0..MaxCv}
    /\ score = 0
    /\ story = << >>
    /\ track = "default" /\ cols = {} /\ df = << >> /\ raw = << >>
    /\ lap_times = << >> /\ sector_times = << >>

\* lines 235-245: cv to score
ScoreMapping ==
    /\ pc = "cv"
    /\ score' = ScoreOfCv(cv)
    /\ pc' = "score"
    /\ UNCHANGED <<raw, track, cols, df, lap_times, sector_times, cv, story>>
    /\ UNCHANGED identity

\* lines 247-265: rating, rounding, return (the lap times behind cv are not
\* part of this specification: range 0)
RateScore ==
    /\ pc = "score"
    /\ \E r \in ConsistencyResults(<<0>>, cv, score) :
          story' = ("consistency_score" :> r)
    /\ pc' = "rated"
    /\ UNCHANGED <<raw, track, cols, df, lap_times, sector_times, cv, score>>
    /\ UNCHANGED identity

NextScore == ScoreMapping \/ RateScore

SpecScore == InitScore /\ [][NextScore]_vars

-----------------------------------------------------------------------------
(* The engine's lap analyses on LapRecord tables: laps numbered in         *)
(* ascending order (not necessarily consecutively), lap times defined.     *)

\* lap times of a session: around 90 s, or 0 throughout when every lap has a
\* single telemetry record (calculate_lap_times: max - min of one time)
LapTimeProfiles == {{8845, 9000, 9155}, {9000, 9029, 9060}, {0}}

\* the tables calculate_lap_times and calculate_lap_deltas can leave: rows in
\* ascending lap order, delta_to_best filled in
LapTables ==
    UNION { { CalculateLapDeltas([k \in DOMAIN AscSeq(L) |->
                  [lap |-> AscSeq(L)[k], lap_time |-> times[k], records |-> 1]])
              : times \in UNION { [1..Cardinality(L) -> V] : V \in LapTimeProfiles } }
            : L \in SUBSET (1..MaxLapNo) }

InitStory ==
    /\ pc = "story"
    /\ vehicle_id = << >> /\ vehicle = << >>
    /\ lap_times \in LapTables
    /\ story = << >>
    /\ cv = 0 /\ score = 0
    /\ track = "default" /\ cols = {} /\ df = << >> /\ raw = << >>
    /\ sector_times = << >>

TrajectoryStep ==
    /\ pc = "story"
    /\ "performance_trajectory" \notin DOMAIN story
    /\ story' = story @@ ("performance_trajectory" :> AnalyzePerformanceTrajectory(lap_times))
    /\ UNCHANGED <<pc, raw, track, cols, df, lap_times, sector_times, cv, score>>
    /\ UNCHANGED identity

BreakthroughStep ==
    /\ pc = "story"
    /\ "breakthrough_moment" \notin DOMAIN story
    /\ story' = story @@ ("breakthrough_moment" :> IdentifyBreakthroughMoments(lap_times))
    /\ UNCHANGED <<pc, raw, track, cols, df, lap_times, sector_times, cv, score>>
    /\ UNCHANGED identity

ConsistencyStep ==
    /\ pc = "story"
    /\ "consistency_score" \notin DOMAIN story
    /\ \E r \in CalculateConsistencyScore(lap_times) :
          story' = story @@ ("consistency_score" :> r)
    /\ UNCHANGED <<pc, raw, track, cols, df, lap_times, sector_times, cv, score>>
    /\ UNCHANGED identity

NextStory == TrajectoryStep \/ BreakthroughStep \/ ConsistencyStep

SpecStory == InitStory /\ [][NextStory]_vars

-----------------------------------------------------------------------------
(* find_optimal_lap on lap and sector tables of a two-sector session: a   *)
(* lap's sectors are timed inside the lap, so their times add up to at    *)
(* most the lap time.  A lap of 41 s is a partial lap: it has rows in the *)
(* first sector alone, or in none.                                        *)

OptLapTimes == {4100, 9000, 9100}
OptSectorTimes == [sector : {"S1.a"}, sector_time : {4000, 4100}]
                      \cup [sector : {"S1.b"}, sector_time : {4900, 5000}]

\* the sector rows of one lap: at most one per sector
OptLapSectors ==
    { S \in SUBSET OptSectorTimes : \A a, b \in S : a.sector = b.sector => a = b }

RECURSIVE SectorRows(_, _)
\* the sector table of the laps in L, rows by lap and by sector
SectorRows(L, secs) ==
    IF L = {} THEN << >>
    ELSE LET l == SetMin(L)
             ranks == AscSeq({SectorRank(r.sector) : r \in secs[l]})
         IN  [k \in DOMAIN ranks |->
                 LET r == CHOOSE x \in secs[l] : SectorRank(x.sector) = ranks[k]
                 IN  [lap |-> l, sector |-> r.sector, sector_time |-> r.sector_time]]
             \o SectorRows(L \ {l}, secs)

InitOptimal ==
    /\ pc = "optimal"
    /\ vehicle_id = << >> /\ vehicle = << >>
    /\ \E L \in SUBSET (1..MaxOptLaps) :
         \E times \in [L -> OptLapTimes], secs \in [L -> OptLapSectors] :
            /\ \A l \in L :
                  LET ts == {r.sector_time : r \in secs[l]}
                  IN  (IF Cardinality(secs[l]) = 2 THEN SetMin(ts) + SetMax(ts)
                       ELSE IF Cardinality(secs[l]) = 1 THEN SetMin(ts) ELSE 0)
                          <= times[l]
            /\ lap_times = CalculateLapDeltas([k \in DOMAIN AscSeq(L) |->
                               [lap |-> AscSeq(L)[k], lap_time |-> times[AscSeq(L)[k]],
                                records |-> 2]])
            /\ sector_times = CalculateSectorDeltas(SectorRows(L, secs))
    /\ story = << >>
    /\ cv = 0 /\ score = 0
    /\ track = "Barber" /\ cols = {} /\ df = << >> /\ raw = << >>

OptimalLapStep ==
    /\ pc = "optimal"
    /\ story' = ("optimal_lap" :> FindOptimalLap(lap_times, sector_times))
    /\ pc' = "optimal_done"
    /\ UNCHANGED <<raw, track, cols, df, lap_times, sector_times, cv, score>>
    /\ UNCHANGED identity

NextOptimal == OptimalLapStep

SpecOptimal == InitOptimal /\ [][NextOptimal]_vars

-----------------------------------------------------------------------------
(* calculate_braking_intensity and calculate_risk_index on telemetry of n *)
(* rows: the first h brake heavily, the first f are at full throttle, the *)
(* first s run at another speed than the rest.                            *)

RiskChannels == {"pbrake_f", "pbrake_r", "ath", "Speed"}

RiskTable(n, h, f, s, lo, hi) ==
    [i \in 1..n |->
        [pbrake_f |-> IF i <= h THEN 60 ELSE 40,
         pbrake_r |-> IF i <= h THEN 60 ELSE IF i % 2 = 0 THEN 60 ELSE 0,
         ath |-> IF i <= f THEN 95 ELSE THROTTLE_FULL_THRESHOLD,
         Speed |-> IF i <= s THEN hi ELSE lo,
         brake_intensity |-> NaN,
         braking_zone |-> "NaN"]]

\* a channel that is absent reads the same in every row
Blank(c, d) ==
    [i \in DOMAIN d |->
        [pbrake_f |-> IF "pbrake_f" \in c THEN d[i].pbrake_f ELSE NaN,
         pbrake_r |-> IF "pbrake_r" \in c THEN d[i].pbrake_r ELSE NaN,
         ath |-> IF "ath" \in c THEN d[i].ath ELSE NaN,
         Speed |-> IF "Speed" \in c THEN d[i].Speed ELSE NaN,
         brake_intensity |-> NaN,
         braking_zone |-> "NaN"]]

InitRisk ==
    /\ pc = "telemetry"
    /\ vehicle_id = << >> /\ vehicle = << >>
    /\ cols \in SUBSET RiskChannels
    /\ \E n \in 0..MaxRiskRows :
         \E h \in {0, 1, n \div 2, n}, f \in {0, n \div 4, n}, s \in {0, 1, n \div 2},
            lo \in {MIN_SPEED, 100}, hi \in {110, 160} :
               df = Blank(cols, RiskTable(n, h, f, s, lo, hi))
    /\ raw = df
    /\ story = << >>
    /\ cv = 0 /\ score = 0
    /\ track = "default"
    /\ lap_times = << >> /\ sector_times = << >>

BrakingIntensityStep ==
    /\ pc = "telemetry"
    /\ df' = CalculateBrakingIntensity(cols, df)
    /\ cols' = cols \cup {"brake_intensity", "braking_zone"}
    /\ pc' = "metrics"
    /\ UNCHANGED <<raw, track, lap_times, sector_times, scoring>>
    /\ UNCHANGED identity

RiskIndexStep ==
    /\ pc \in {"telemetry", "metrics"}
    /\ \E r \in CalculateRiskIndex(cols, df) : story' = ("risk_index" :> r)
    /\ pc' = "risk"
    /\ UNCHANGED <<raw, track, cols, df, lap_times, sector_times, cv, score>>
    /\ UNCHANGED identity

NextRisk == BrakingIntensityStep \/ RiskIndexStep

SpecRisk == InitRisk /\ [][NextRisk]_vars

-----------------------------------------------------------------------------
(* generate_sector_narrative on sector tables of up to three sectors: a   *)
(* sector is timed in every lap or in none, and two times of a sector     *)
(* differ by 0, 0.09 s, 0.22 s or 0.31 s.                                 *)

InsightSectors == <<"S1.a", "S1.b", "S2.a">>
InsightTimes == {4000, 4009, 4031}

\* the sector tables of n laps timing the sectors at the places P of names
InsightTables(names, P, n) ==
    LET places == AscSeq(P)
        m == Len(places)
    IN  { [r \in 1..(n * m) |->
              [lap |-> ((r - 1) \div m) + 1,
               sector |-> names[places[((r - 1) % m) + 1]],
               sector_time |-> t[r]]]
          : t \in [1..(n * m) -> InsightTimes] }

InitInsights ==
    /\ pc = "sectors"
    /\ vehicle_id = << >> /\ vehicle = << >>
    /\ \E n \in 0..MaxInsightLaps, P \in SUBSET DOMAIN InsightSectors :
          /\ (n = 0) = (P = {})
          /\ \E t \in InsightTables(InsightSectors, P, n) :
                sector_times = CalculateSectorDeltas(t)
    /\ story = << >>
    /\ cv = 0 /\ score = 0
    /\ track = "Barber" /\ cols = {} /\ df = << >> /\ raw = << >>
    /\ lap_times = << >>

SectorNarrativeStep ==
    /\ pc = "sectors"
    /\ story' = ("sector_insights" :> GenerateSectorNarrative(sector_times))
    /\ pc' = "insights"
    /\ UNCHANGED <<raw, track, cols, df, lap_times, sector_times, cv, score>>
    /\ UNCHANGED identity

NextInsights == SectorNarrativeStep

SpecInsights == InitInsights /\ [][NextInsights]_vars

-----------------------------------------------------------------------------
(* generate_recommendations on the analyses generate_session_narrative    *)
(* hands it: a trajectory, a consistency result, a risk result, and a     *)
(* sector table of one or two sectors.                                    *)

AdviceSectors == <<"S1.a", "S1.b">>
AdviceTrends == {"improving", "declining", "consistent", "insufficient_data"}

\* consistency scores in tenths, with the rating of the score (0 / N/A: a
\* session of fewer than three laps)
AdviceConsistency ==
    {[score |-> 0, rating |-> "N/A", range |-> 0]}
    \cup {[score |-> s, rating |-> RatingOfScore(s * (ScoreUnit \div 10)), range |-> 155]
            : s \in {59, 60, 69, 70, 100}}

\* risk composites before rounding, in 1/10000 point: the results round to
\* 3.0, 3.9, 4.0, 8.0 (from below and from above) and 8.1
AdviceRiskScores == {30000, 39400, 39600, 79600, 80200, 80600}

\* the results of calculate_risk_index (components left out), the one of an
\* empty telemetry table among them
AdviceRisk ==
    {[score |-> 0, rating |-> "N/A"]}
    \cup UNION { {[score |-> t, rating |-> RiskRating(r)] : t \in RoundRisk(r)}
                 : r \in AdviceRiskScores }

InitAdvice ==
    /\ pc = "analysed"
    /\ vehicle_id = << >> /\ vehicle = << >>
    /\ \E n \in 0..MaxAdviceLaps, P \in SUBSET DOMAIN AdviceSectors :
          /\ (n = 0) = (P = {})
          /\ \E t \in InsightTables(AdviceSectors, P, n) :
                sector_times = CalculateSectorDeltas(t)
    /\ \E trajectory \in {[trend |-> t] : t \in AdviceTrends},
          consistency \in AdviceConsistency, risk \in AdviceRisk :
          story = ("performance_trajectory" :> trajectory)
                  @@ ("consistency_score" :> consistency)
                  @@ ("risk_index" :> risk)
    /\ cv = 0 /\ score = 0
    /\ track = "Barber" /\ cols = {} /\ df = << >> /\ raw = << >>
    /\ lap_times = << >>

RecommendStep ==
    /\ pc = "analysed"
    /\ story' = ("recommendations" :>
                    GenerateRecommendations(sector_times, story["performance_trajectory"],
                        story["consistency_score"], story["risk_index"]))
                 @@ story
    /\ pc' = "advised"
    /\ UNCHANGED <<raw, track, cols, df, lap_times, sector_times, cv, score>>
    /\ UNCHANGED identity

NextAdvice == RecommendStep

SpecAdvice == InitAdvice /\ [][NextAdvice]_vars

-----------------------------------------------------------------------------
(* Vehicle identification: data_loader.py.  A string is the sequence of  *)
(* its characters.                                                        *)

\* config.UNASSIGNED_CAR_NUMBER, and the literal "000" of parse_vehicle_id
UNASSIGNED_CAR_NUMBER == <<"0", "0", "0">>

\* the literal "Unknown"
Unknown == <<"U", "n", "k", "n", "o", "w", "n">>

\* \d, among the characters of the model
Digits == {"0", "7"}

\* the literal head of config.VEHICLE_ID_PATTERN
PatternHead == <<"G", "R", "8", "6", "-">>

\* \d+ from position i of s: the end of the longest run of digits starting
\* there (i - 1 when s has no digit at i)
DigitsEnd(s, i) ==
    SetMax({i - 1} \cup {j \in i..Len(s) : \A k \in i..j : s[k] \in Digits})

\* re.match(VEHICLE_ID_PATTERN, s): the groups of a match at the start of s,
\* << >> for None.  The runs of digits are greedy; giving a digit back never
\* helps, the pattern going on with "-" resp. ending.
ReMatch(s) ==
    LET c1 == Len(PatternHead) + 1
        e1 == DigitsEnd(s, c1)
        e2 == DigitsEnd(s, e1 + 2)
    IN  IF /\ Len(s) >= Len(PatternHead)
           /\ SubSeq(s, 1, Len(PatternHead)) = PatternHead
           /\ e1 >= c1
           /\ e1 + 1 <= Len(s) /\ s[e1 + 1] = "-"
           /\ e2 >= e1 + 2
        THEN <<SubSeq(s, c1, e1), SubSeq(s, e1 + 2, e2)>>
        ELSE << >>

\* TelemetryDataLoader.parse_vehicle_id
ParseVehicleId(s) ==
    IF ReMatch(s) # << >> THEN ReMatch(s) ELSE <<Unknown, UNASSIGNED_CAR_NUMBER>>

\* TelemetryDataLoader.get_vehicle_display_name
GetVehicleDisplayName(s) ==
    LET parsed == ParseVehicleId(s)
    IN  IF parsed[2] = UNASSIGNED_CAR_NUMBER
        THEN [text |-> "Chassis (Unassigned)", chassis |-> parsed[1]]
        ELSE [text |-> "Car # (Chassis)", car_num |-> parsed[2], chassis |-> parsed[1]]

RECURSIVE DigitStrings(_)
\* the runs of at most n digits, the empty one included
DigitStrings(n) ==
    IF n = 0 THEN { << >> }
    ELSE LET shorter == DigitStrings(n - 1)
         IN  shorter \cup { Append(d, c) : d \in shorter, c \in Digits }

IdHeads == { PatternHead, <<"G", "R", "8", "7", "-">>, <<"g", "r", "8", "6", "-">>,
             <<"x", "G", "R", "8", "6", "-">>, << >> }
IdSeparators == { <<"-">>, <<"_">>, << >> }
IdTails == { << >>, <<"x">>, <<"-", "7">> }

\* the identifiers of the model: well-formed ones and ones spoilt at the
\* head, in a run of digits, at the separator or at the tail
VehicleIds ==
    { h \o c \o p \o n \o t :
        h \in IdHeads, c \in DigitStrings(MaxDigits), p \in IdSeparators,
        n \in DigitStrings(MaxDigits), t \in IdTails }

InitVehicle ==
    /\ pc = "vehicle"
    /\ vehicle_id \in VehicleIds
    /\ vehicle = << >>
    /\ story = << >>
    /\ cv = 0 /\ score = 0
    /\ track = "default" /\ cols = {} /\ df = << >> /\ raw = << >>
    /\ lap_times = << >> /\ sector_times = << >>

ParseVehicleIdStep ==
    /\ pc = "vehicle"
    /\ vehicle' = ParseVehicleId(vehicle_id)
    /\ pc' = "parsed"
    /\ UNCHANGED <<raw, track, cols, df, lap_times, sector_times, scoring, vehicle_id>>

DisplayNameStep ==
    /\ pc = "vehicle"
    /\ vehicle' = GetVehicleDisplayName(vehicle_id)
    /\ pc' = "displayed"
    /\ UNCHANGED <<raw, track, cols, df, lap_times, sector_times, scoring, vehicle_id>>

NextVehicle == ParseVehicleIdStep \/ DisplayNameStep

SpecVehicle == InitVehicle /\ [][NextVehicle]_vars

-----------------------------------------------------------------------------
(* The session pipeline: streamlit_app.py *)

Tracks == {"default", "Barber"}
RawTimes == {0, 1, NaT}
RawLaps == {2, ERRONEOUS_LAP_NUMBER}     \* a valid lap id, the sentinel
RawDists == {500, 24001}     \* 50.0 m, 2400.1 m

ColumnSets == SUBSET {"lap", DistCol, "meta_time"}

\* a raw row; a column the table lacks holds a fixed filler.  The tables of
\* the pipeline carry no brake, throttle, steering or acceleration channel.
RawRows(c) ==
    [ts     : IF "meta_time" \in c THEN RawTimes ELSE {0},
     lap    : IF "lap" \in c THEN RawLaps ELSE {0},
     dist   : IF DistCol \in c THEN RawDists ELSE {0},
     tn     : {NaT},
     sector : {""},
     brake_intensity : {NaN},
     braking_zone : {"NaN"}]

RawTables(c) == UNION {[1..n -> RawRows(c)] : n \in 0..MaxRows}

Init ==
    /\ pc = "raw"
    /\ vehicle_id = << >> /\ vehicle = << >>
    /\ track \in Tracks
    /\ cols \in ColumnSets
    /\ df \in RawTables(cols)
    /\ raw = df
    /\ lap_times = << >>
    /\ sector_times = << >>
    /\ cv = 0 /\ score = 0 /\ story = << >>

\* preprocess_dataset working on the caller's table instead of a copy
PreprocessDataset_InPlace ==
    /\ pc = "raw"
    /\ df' \in NormalizeTimestamps(cols, CleanLapNumbers(cols, df))
    /\ raw' = df'
    /\ cols' = cols \cup {"time_normalized"}
    /\ pc' = "preprocessed"
    /\ UNCHANGED <<track, lap_times, sector_times, scoring>>
    /\ UNCHANGED identity

\* TelemetryDataLoader.preprocess_dataset
PreprocessDataset ==
    /\ pc = "raw"
    /\ df' \in NormalizeTimestamps(cols, CleanLapNumbers(cols, df))
    /\ cols' = cols \cup {"time_normalized"}
    /\ pc' = "preprocessed"
    /\ UNCHANGED <<raw, track, lap_times, sector_times, scoring>>
    /\ UNCHANGED identity

\* TelemetryProcessor.process_full_session
ProcessFullSession ==
    /\ pc = "preprocessed"
    /\ LET detected == DetectLaps(cols, df)
           telemetry == CalculateBrakingIntensity(cols,
                            AssignSectors(track, cols, detected))
       IN  /\ df' = telemetry
           /\ lap_times' = CalculateLapDeltas(CalculateLapTimes(telemetry))
           /\ sector_times' = CalculateSectorDeltas(CalculateSectorTimes(track, telemetry))
    /\ cols' = cols \cup {"lap", "sector", "brake_intensity", "braking_zone"}
    /\ pc' = "processed"
    /\ UNCHANGED <<raw, track, scoring>>
    /\ UNCHANGED identity

\* the columns of pd.DataFrame(lap_stats) after calculate_lap_deltas: a
\* frame built from an empty list of records has no column at all
LapTimeColumns(lt) ==
    IF lt = << >> THEN {}
    ELSE {"lap", "lap_time", "records", "avg_speed", "max_speed", "delta_to_best"}

\* RaceStoryGenerator._create_executive_summary: the figures of the summary,
\* or the exception that lap_times['lap_time'] raises
CreateExecutiveSummary(lt) ==
    IF "lap_time" \notin LapTimeColumns(lt)
    THEN [raised |-> "KeyError"]
    ELSE [raised |-> "", total_laps |-> Len(lt),
          best_lap |-> NanMin({lt[i].lap_time : i \in DOMAIN lt})]

\* RaceStoryGenerator.generate_session_narrative: the Story, or the exception
\* that ends the call and the step that raised it.  sector_insights is the
\* length of the list (one insight per sector name of the sector table).
SessionNarrative(lt, st) ==
    LET breakthrough == IdentifyBreakthroughMoments(lt)
        summary == CreateExecutiveSummary(lt)
    IN  IF breakthrough.type = "KeyError"
        THEN [raised |-> "KeyError", at |-> "identify_breakthrough_moments"]
        ELSE IF st # << >> /\ \A i \in DOMAIN lt : lt[i].lap_time = NaN
        THEN [raised |-> "KeyError", at |-> "find_optimal_lap"]
        ELSE IF summary.raised # ""
        THEN [raised |-> "KeyError", at |-> "_create_executive_summary"]
        ELSE [raised |-> "", at |-> "",
              executive_summary |-> summary,
              breakthrough_moment |-> breakthrough,
              sector_insights |-> Cardinality({st[i].sector : i \in DOMAIN st}),
              optimal_lap |-> FindOptimalLap(lt, st)]

\* the Race Story page: generate_session_narrative on the processed session
GenerateSessionNarrative ==
    /\ pc = "processed"
    /\ story' = SessionNarrative(lap_times, sector_times)
    /\ pc' = "narrated"
    /\ UNCHANGED <<raw, track, cols, df, lap_times, sector_times, cv, score>>
    /\ UNCHANGED identity

Next == PreprocessDataset \/ ProcessFullSession \/ GenerateSessionNarrative

Spec == Init /\ [][Next]_vars

-----------------------------------------------------------------------------
(* detect_laps on its own, called on a raw table (not preprocessed) with   *)
(* or without lap and distance columns, and called again on its result.    *)

InitDetect ==
    /\ pc = "telemetry"
    /\ vehicle_id = << >> /\ vehicle = << >>
    /\ track = "default"
    /\ cols \in SUBSET {"lap", DistCol}
    /\ df \in RawTables(cols)
    /\ raw = df
    /\ lap_times = << >>
    /\ sector_times = << >>
    /\ cv = 0 /\ score = 0 /\ story = << >>

\* detect_laps(df); raw keeps the argument
DetectLapsStep ==
    /\ pc = "telemetry"
    /\ df' = DetectLaps(cols, df)
    /\ cols' = cols \cup {"lap"}
    /\ pc' = "detected"
    /\ UNCHANGED <<raw, track, lap_times, sector_times, scoring>>
    /\ UNCHANGED identity

\* detect_laps(detect_laps(df)); raw keeps the argument of the second call
DetectLapsAgain ==
    /\ pc = "detected"
    /\ raw' = df
    /\ df' = DetectLaps(cols, df)
    /\ cols' = cols \cup {"lap"}
    /\ pc' = "redetected"
    /\ UNCHANGED <<track, lap_times, sector_times, scoring>>
    /\ UNCHANGED identity

NextDetect == DetectLapsStep \/ DetectLapsAgain

SpecDetect == InitDetect /\ [][NextDetect]_vars

-----------------------------------------------------------------------------
(* The Sector Classifier on its own: assign_sectors over the distances    *)
(* around every range boundary of the configured tables.                  *)

\* "Sebring" has no entry in config.SECTORS
ClassifierTracks == {"Barber", "COTA", "default", "Sebring"}

Boundaries ==
    UNION { UNION { {SECTORS[t][k].start, SECTORS[t][k].end} : k \in DOMAIN SECTORS[t] } :
            t \in DOMAIN SECTORS }

\* 0.1 m before, at, and 0.1 m after every boundary
BoundaryDists == UNION { {Dm(b) - 1, Dm(b), Dm(b) + 1} : b \in Boundaries }

ClassifierRows(c) ==
    [ts : {0}, lap : {0}, tn : {NaT}, sector : {""},
     dist : IF DistCol \in c THEN BoundaryDists ELSE {0}]

InitSectors ==
    /\ pc = "classify"
    /\ vehicle_id = << >> /\ vehicle = << >>
    /\ track \in ClassifierTracks
    /\ cols \in SUBSET {DistCol}
    /\ df \in UNION {[1..n -> ClassifierRows(cols)] : n \in 1..MaxSectorRows}
    /\ raw = df
    /\ lap_times = << >>
    /\ sector_times = << >>
    /\ cv = 0 /\ score = 0 /\ story = << >>

\* TelemetryProcessor.assign_sectors
AssignSectorsStep ==
    /\ pc = "classify"
    /\ df' = AssignSectors(track, cols, df)
    /\ cols' = cols \cup {"sector"}
    /\ pc' = "classified"
    /\ UNCHANGED <<raw, track, lap_times, sector_times, scoring>>
    /\ UNCHANGED identity

NextSectors == AssignSectorsStep

SpecSectors == InitSectors /\ [][NextSectors]_vars

-----------------------------------------------------------------------------
(* calculate_sector_times on its own: tables with or without a lap, a     *)
(* sector and a distance column; a sector column may hold a label that no *)
(* sector table enumerates.                                               *)

TimedTracks == {"Barber", "Sebring"}
TimedLabels == {"S1.a", "S1.b", "S9.z"}
TimedDists == {Dm(50), Dm(500)}
TimedStamps == {0, 150}

TimedRows(c) ==
    [ts     : {0},
     lap    : IF "lap" \in c THEN {1, 2} ELSE {0},
     dist   : IF DistCol \in c THEN TimedDists ELSE {0},
     tn     : TimedStamps,
     sector : IF "sector" \in c THEN TimedLabels ELSE {""}]

InitSectorTimes ==
    /\ pc = "labelled"
    /\ vehicle_id = << >> /\ vehicle = << >>
    /\ track \in TimedTracks
    /\ \E c \in SUBSET {"lap", "sector", DistCol} :
          /\ cols = c \cup {"time_normalized"}
          /\ df \in UNION {[1..n -> TimedRows(c)] : n \in 0..MaxTimedRows}
    /\ raw = df
    /\ lap_times = << >>
    /\ sector_times = << >>
    /\ cv = 0 /\ score = 0 /\ story = << >>

\* TelemetryProcessor.calculate_sector_times: the table is classified and
\* its laps detected first when it lacks the column; only the sector table
\* is returned
SectorTimesStep ==
    /\ pc = "labelled"
    /\ LET classified == IF "sector" \notin cols
                         THEN AssignSectors(track, cols, df) ELSE df
           detected == IF "lap" \notin cols
                       THEN DetectLaps(cols, classified) ELSE classified
       IN  sector_times' = CalculateSectorTimes(track, detected)
    /\ pc' = "timed"
    /\ UNCHANGED <<raw, track, cols, df, lap_times, scoring>>
    /\ UNCHANGED identity

NextSectorTimes == SectorTimesStep

SpecSectorTimes == InitSectorTimes /\ [][NextSectorTimes]_vars

\* C5: with a configured sector table every row receives a name of the
\* table: that of the first range with start <= distance < end, and that
\* of the last range when no range contains the distance; for Barber both
\* 2399.9 m and 2400.1 m are classified S3.b.
C5_SectorCoverage ==
    (pc = "classified" /\ DistCol \in cols /\ Sectors(track) # << >>)
    => \A i \in DOMAIN df :
          LET T == Sectors(track)
              hits == {k \in DOMAIN T :
                         Dm(T[k].start) <= df[i].dist /\ df[i].dist < Dm(T[k].end)}
          IN  /\ \E k \in DOMAIN T : df[i].sector = T[k].name
              /\ hits # {} => df[i].sector = T[SetMin(hits)].name
              /\ hits = {} => df[i].sector = T[Len(T)].name
              /\ (track = "Barber" /\ df[i].dist \in {23999, 24001})
                    => df[i].sector = "S3.b"

\* the Barber overrun 2400.1 m has been classified, next to nothing dropped
C5_Witness ==
    /\ pc = "classified"
    /\ track = "Barber"
    /\ Len(df) = Len(raw)
    /\ \E i \in DOMAIN df : df[i].dist = 24001 /\ df[i].sector = "S3.b"

-----------------------------------------------------------------------------
(* Properties of the session pipeline *)

HasSentinel(d) == \E i \in DOMAIN d : d[i].lap = ERRONEOUS_LAP_NUMBER

\* C1: once the session is processed, neither a telemetry row nor a lap
\* record carries the erroneous lap number 32768, whether or not the table
\* has a distance channel.
C1_NoSentinelReachesAggregator ==
    pc = "processed" =>
        /\ ~HasSentinel(df)
        /\ \A k \in DOMAIN lap_times : lap_times[k].lap # ERRONEOUS_LAP_NUMBER

\* a raw table whose trusted part is sound: lap, distance and time columns
\* exist, the stamps parse and strictly increase, and the lap ids that are
\* not the sentinel are >= 1 and never decrease
SoundRaw ==
    /\ {"lap", DistCol, "meta_time"} \subseteq cols
    /\ \A i \in DOMAIN raw : raw[i].ts # NaT
    /\ \A i, j \in DOMAIN raw : i < j => raw[i].ts < raw[j].ts
    /\ \A i \in DOMAIN raw : raw[i].lap >= 1
    /\ \A i, j \in DOMAIN raw :
          (i < j /\ raw[i].lap # ERRONEOUS_LAP_NUMBER /\ raw[j].lap # ERRONEOUS_LAP_NUMBER)
              => raw[i].lap <= raw[j].lap

\* C2: lap partition.  In the processed table (rows in ascending normalized
\* time) every lap id is >= 1 and the lap ids never decrease, also when only
\* some rows of a sound raw table carried the sentinel.
C2_LapPartition ==
    (pc = "processed" /\ SoundRaw /\ HasSentinel(raw)
        /\ \E i \in DOMAIN raw : raw[i].lap # ERRONEOUS_LAP_NUMBER)
    => /\ \A i \in DOMAIN df : df[i].lap >= 1
       /\ \A i, j \in DOMAIN df : i < j => df[i].lap <= df[j].lap

\* every lap time of the LapRecord table is a number
LapTimesDefined == \A k \in DOMAIN lap_times : lap_times[k].lap_time # NaN

SectorGroup(s) == {k \in DOMAIN sector_times : sector_times[k].sector = s}

SectorTimesDefined == \A k \in DOMAIN sector_times : sector_times[k].sector_time # NaN

-----------------------------------------------------------------------------
(* Properties of the Narrative/Scoring Engine *)

\* the step of the cv grid of SpecScore: 0.01 %
CvStep == CvUnit \div 100

\* C6: for >= 3 laps the score computed by calculate_consistency_score is a
\* non-increasing function of cv that stays within [0, 10], is continuous at
\* the branch boundaries (cv = 0.5 gives exactly 10.0, cv = 2.0 gives 7.5,
\* cv = 10.0 gives 2.5) and is 0 for every cv >= 15.  Continuity is stated
\* as: one cv unit below a boundary the score is at most the steepest
\* slope (40 score units per cv unit) above the score at the boundary.
C6_ScoreMapping ==
    pc \in {"score", "rated"} =>
        /\ 0 <= score /\ score <= 10 * ScoreUnit
        /\ cv >= CvStep => ScoreOfCv(cv - CvStep) >= score
        /\ cv = CvUnit \div 2 => score = 10 * ScoreUnit
        /\ cv = 2 * CvUnit => score = (75 * ScoreUnit) \div 10
        /\ cv = 10 * CvUnit => score = (25 * ScoreUnit) \div 10
        /\ cv \in {CvUnit \div 2, 2 * CvUnit, 10 * CvUnit} =>
               /\ ScoreOfCv(cv - 1) - score >= 0
               /\ ScoreOfCv(cv - 1) - score <= 40
        /\ cv >= 15 * CvUnit => score = 0
        /\ pc = "rated" => story["consistency_score"].score \in 0..100

\* the mapping has been applied at the branch boundary cv = 2.0
C6_Witness ==
    /\ pc = "score"
    /\ cv = 2 * CvUnit
    /\ score = (75 * ScoreUnit) \div 10

\* the band of a returned score, in tenths
BandOfTenths(r) ==
    IF r >= 85 THEN "Excellent"
    ELSE IF r >= 70 THEN "Very Good"
    ELSE IF r >= 55 THEN "Good"
    ELSE IF r >= 40 THEN "Fair"
    ELSE "Needs Improvement"

\* C7: in every result of calculate_consistency_score for >= 3 laps, the
\* returned rating is the band of the returned score: Excellent iff
\* score >= 8.5, Very Good iff 7.0 <= score < 8.5, Good iff
\* 5.5 <= score < 7.0, Fair iff 4.0 <= score < 5.5, Needs Improvement iff
\* score < 4.0.
C7_RatingIsBandOfReturnedScore ==
    (Len(lap_times) >= 3 /\ "consistency_score" \in DOMAIN story) =>
        story["consistency_score"].rating
            = BandOfTenths(story["consistency_score"].score)

\* all lap_time values identical
FlatSession(lt) == \A i, j \in DOMAIN lt : lt[i].lap_time = lt[j].lap_time

\* C9: for any session of n >= 3 laps whose lap_time values are all
\* identical, the story reports consistency score 10.0 with rating
\* Excellent, trajectory trend 'consistent', and a breakthrough_moment of
\* type 'best_lap' with improvement 0 located on the first
\* (lowest-numbered) lap.
C9_FlatSession ==
    (Len(lap_times) >= 3 /\ FlatSession(lap_times)) =>
        /\ "consistency_score" \in DOMAIN story =>
               /\ story["consistency_score"].score = 100
               /\ story["consistency_score"].rating = "Excellent"
        /\ "performance_trajectory" \in DOMAIN story =>
               story["performance_trajectory"].trend = "consistent"
        /\ "breakthrough_moment" \in DOMAIN story =>
               /\ story["breakthrough_moment"].type = "best_lap"
               /\ story["breakthrough_moment"].improvement = 0
               /\ story["breakthrough_moment"].lap
                      = SetMin({lap_times[i].lap : i \in DOMAIN lap_times})

\* the scenario: lap A with sector times [40.0, 50.0], then lap B with
\* [41.0, 49.0], both lap times 90.0
OptimalScenario ==
    /\ Len(lap_times) = 2
    /\ lap_times[1].lap_time = 9000 /\ lap_times[2].lap_time = 9000
    /\ Len(sector_times) = 4
    /\ \A i \in 1..4 : sector_times[i].lap = lap_times[(i + 1) \div 2].lap
    /\ [i \in 1..4 |-> <<sector_times[i].sector, sector_times[i].sector_time>>]
          = << <<"S1.a", 4000>>, <<"S1.b", 5000>>, <<"S1.a", 4100>>, <<"S1.b", 4900>> >>

\* C10 as stated: in the scenario find_optimal_lap returns
\* optimal_time = 89.0, actual_best = 90.0, potential_gain = 1.0 and a
\* gap_breakdown with two entries, {sector1, 1.0} and {sector2, 1.0}, in
\* original sector order.
C10_TwoEntryBreakdown ==
    (OptimalScenario /\ pc = "optimal_done") =>
        /\ story["optimal_lap"].optimal_time = 8900
        /\ story["optimal_lap"].actual_best = 9000
        /\ story["optimal_lap"].potential_gain = 100
        /\ story["optimal_lap"].gap_breakdown
              = << [sector |-> "S1.a", gap |-> 100], [sector |-> "S1.b", gap |-> 100] >>

\* C10: in the scenario find_optimal_lap returns optimal_time = 89.0,
\* actual_best = 90.0, potential_gain = 1.0 and a gap_breakdown with one
\* entry, {sector2, 1.0}: the gaps are those of lap A, the first lap with
\* the best lap time, whose sector1 time is the best of that sector.
C10_OptimalLapScenario ==
    (OptimalScenario /\ pc = "optimal_done") =>
        /\ story["optimal_lap"].optimal_time = 8900
        /\ story["optimal_lap"].actual_best = 9000
        /\ story["optimal_lap"].potential_gain = 100
        /\ story["optimal_lap"].gap_breakdown = << [sector |-> "S1.b", gap |-> 100] >>

\* find_optimal_lap has answered on the scenario
C10_Witness ==
    /\ OptimalScenario
    /\ pc = "optimal_done"
    /\ "optimal_lap" \in DOMAIN story
    /\ Len(story["optimal_lap"].gap_breakdown) = 1

\* the rows of the telemetry with brake intensity above the heavy threshold
HeavyRows(d) == {i \in DOMAIN d : d[i].brake_intensity > HEAVY_BRAKE_THRESHOLD}

\* C8: for non-empty telemetry, braking_aggression = min(10, 2 x percent of
\* rows with brake intensity above the heavy threshold) - so 100% heavy
\* braking rows give exactly 10 - and the composite risk score
\* 0.4*brake + 0.3*throttle + 0.3*corner always lies in [0, 10]; so does
\* each component.
C8_RiskScaling ==
    (pc = "risk" /\ Len(df) > 0) =>
        LET risk == story["risk_index"]
        IN  /\ risk.score \in 0..100
            /\ \A name \in DOMAIN risk.components :
                  risk.components[name] \in 0..10000
            /\ "brake_intensity" \in cols =>
                  /\ "braking_aggression" \in DOMAIN risk.components
                  /\ risk.components["braking_aggression"]
                        = Min(10000, (Cardinality(HeavyRows(df)) * 200000) \div Len(df))
                  /\ HeavyRows(df) = DOMAIN df =>
                        risk.components["braking_aggression"] = 10000

\* the risk index of telemetry whose rows all brake heavily, and of
\* telemetry with a braking component below the cap
C8_Witness ==
    /\ pc = "risk"
    /\ Len(df) > 1
    /\ "brake_intensity" \in cols
    /\ HeavyRows(df) = DOMAIN df
    /\ story["risk_index"].components["braking_aggression"] = 10000
    /\ story["risk_index"].score = 100

RECURSIVE SumOver(_, _)
\* the sum of f over the set S
SumOver(f, S) ==
    IF S = {} THEN 0
    ELSE LET x == CHOOSE y \in S : TRUE
         IN  f[x] + SumOver(f, S \ {x})

\* the least sector_time of each sector name of the sector table
BestOfSector ==
    [n \in {sector_times[i].sector : i \in DOMAIN sector_times} |->
        SetMin({sector_times[i].sector_time :
                   i \in {j \in DOMAIN sector_times : sector_times[j].sector = n}})]

\* C11: whenever the sector table is non-empty, find_optimal_lap returns
\* optimal_time = sum over sector names of the minimum sector_time of that
\* sector, actual_best = minimum lap_time, and potential_gain =
\* actual_best - optimal_time as the raw value: it is never clamped to 0,
\* so it is negative when the fastest lap is shorter than the sum of best
\* sectors.
C11_UnclampedGain ==
    (pc = "optimal_done" /\ Len(sector_times) > 0) =>
        LET optimal == story["optimal_lap"]
            fastest == SetMin({lap_times[i].lap_time : i \in DOMAIN lap_times})
        IN  /\ optimal.optimal_time = SumOver(BestOfSector, DOMAIN BestOfSector)
            /\ optimal.actual_best = fastest
            /\ optimal.potential_gain = optimal.actual_best - optimal.optimal_time
            /\ fastest < optimal.optimal_time => optimal.potential_gain < 0

\* a partial lap is the fastest lap and the gain returned is negative
C11_Witness ==
    /\ pc = "optimal_done"
    /\ Len(sector_times) > 0
    /\ Len(lap_times) = 2
    /\ story["optimal_lap"].actual_best = 4100
    /\ story["optimal_lap"].optimal_time = 8900
    /\ story["optimal_lap"].potential_gain = -4800

\* vehicle_id has the form GR86-<chassis>-<car_number>, both runs of digits
WellFormedId ==
    \E c, n \in DigitStrings(MaxDigits) \ { << >> } :
        vehicle_id = PatternHead \o c \o <<"-">> \o n

\* C12: parse_vehicle_id never raises; for an identifier of the form
\* GR86-<chassis>-<car_number> it returns (chassis, car_number), and for
\* every other input (including empty, malformed or non-GR86 identifiers)
\* it returns exactly ("Unknown", "000"), which get_vehicle_display_name
\* then renders as unassigned.
C12_VehicleIdentity ==
    /\ pc = "parsed" =>
          /\ WellFormedId =>
                vehicle_id = PatternHead \o vehicle[1] \o <<"-">> \o vehicle[2]
          /\ ~WellFormedId => vehicle = <<Unknown, UNASSIGNED_CAR_NUMBER>>
    /\ (pc = "displayed" /\ ~WellFormedId) =>
          vehicle = [text |-> "Chassis (Unassigned)", chassis |-> Unknown]

\* C13: with fewer than 3 lap records analyze_performance_trajectory
\* returns trend 'insufficient_data' (slope 0, improvement_rate 0) and
\* calculate_consistency_score returns score 0 with rating 'N/A'; with
\* fewer than 2 lap records identify_breakthrough_moments returns null; with
\* 3 or more (resp. 2 or more) laps the sentinel result is never returned.
C13_InsufficientData ==
    /\ "performance_trajectory" \in DOMAIN story =>
          LET trajectory == story["performance_trajectory"]
          IN  /\ Len(lap_times) < 3 <=> trajectory.trend = "insufficient_data"
              /\ Len(lap_times) < 3 =>
                    /\ trajectory.slope.num = 0
                    /\ trajectory.improvement_rate.num = 0
    /\ "consistency_score" \in DOMAIN story =>
          LET consistency == story["consistency_score"]
          IN  /\ Len(lap_times) < 3 <=> consistency.rating = "N/A"
              /\ Len(lap_times) < 3 => consistency.score = 0
    /\ "breakthrough_moment" \in DOMAIN story =>
          (Len(lap_times) < 2 <=> story["breakthrough_moment"] = NoMoment)

\* a session of two laps: no trend, no consistency score, yet a
\* breakthrough moment
C13_Witness ==
    /\ Len(lap_times) = 2
    /\ DOMAIN story = {"performance_trajectory", "consistency_score", "breakthrough_moment"}
    /\ story["performance_trajectory"].trend = "insufficient_data"
    /\ story["consistency_score"].rating = "N/A"
    /\ story["breakthrough_moment"] # NoMoment

\* C14: a session of zero telemetry rows goes through process_full_session
\* and generate_session_narrative to a Story, no exception raised.
C14_NoFatalError ==
    (pc = "narrated" /\ raw = << >>) => story.raised = ""

CrossingAt(d, i) ==
    /\ i > 1
    /\ d[i].dist < Dm(100)
    /\ d[i - 1].dist > MaxDistance(d) - Dm(100)

CrossingsUpTo(d, i) == Cardinality({j \in 1..i : CrossingAt(d, j)})
CrossingsBefore(d, i) == Cardinality({j \in 1..(i - 1) : CrossingAt(d, j)})

\* the raw table had no lap column
NoRawLapColumn == \A i \in DOMAIN raw : raw[i].lap = 0

\* the raw table with the lap id of every sentinel row replaced by 1 + n(i)
Recounted(n(_)) ==
    [i \in DOMAIN raw |->
        IF raw[i].lap = ERRONEOUS_LAP_NUMBER
        THEN [raw[i] EXCEPT !.lap = 1 + n(i)]
        ELSE raw[i]]

\* the lap ids assigned by crossing detection are 1 + n(i): in the table
\* preprocess_dataset returns (the repaired rows, then sorted by time) and
\* in the telemetry of process_full_session when detect_laps numbers the laps
CrossingCount(n(_), m(_)) ==
    /\ (pc = "preprocessed" /\ {"lap", DistCol} \subseteq cols =>
           df \in NormalizeTimestamps(cols \ {"time_normalized"}, Recounted(n)))
    /\ (pc = "processed" /\ DistCol \in cols /\ NoRawLapColumn =>
           \A i \in DOMAIN df : df[i].lap = 1 + m(i))

\* C16 (as stated): a crossing is declared at row i iff distance[i] < 100 and
\* distance[i-1] > max(distance) - 100, and the lap id of a row is 1 + the
\* number of crossings declared strictly before the row.
C16_CrossingCountStrictlyBefore ==
    LET n(i) == CrossingsBefore(raw, i)
        m(i) == CrossingsBefore(df, i)
    IN  CrossingCount(n, m)

\* C16 (amended): a crossing is declared at row i iff distance[i] < 100 and
\* distance[i-1] > max(distance) - 100, and the lap id of a row is 1 + the
\* number of crossings declared at or before the row: the row at which a
\* crossing is declared is the first row of the next lap.
C16_CrossingCount ==
    LET n(i) == CrossingsUpTo(raw, i)
        m(i) == CrossingsUpTo(df, i)
    IN  CrossingCount(n, m)

\* detect_laps has numbered the laps of a session with a crossing
C16_Witness ==
    /\ pc = "processed" /\ DistCol \in cols /\ NoRawLapColumn
    /\ \E i \in DOMAIN df : CrossingAt(df, i) /\ df[i].lap = 2 /\ df[i - 1].lap = 1

\* C17: in the lap ids detect_laps computes by crossing detection, the
\* first row has lap id 1, every later row has its predecessor's id or that
\* id plus one, the increment happening exactly at a crossing; the ids used
\* are exactly 1..K and never decrease in row order.
C17_LapCounter ==
    (pc = "processed" /\ DistCol \in cols /\ NoRawLapColumn /\ df # << >>) =>
        /\ df[1].lap = 1
        /\ \A i \in 2..Len(df) :
              /\ df[i].lap - df[i - 1].lap \in {0, 1}
              /\ df[i].lap = df[i - 1].lap + 1 <=> CrossingAt(df, i)
        /\ {df[i].lap : i \in DOMAIN df} = 1..df[Len(df)].lap
        /\ df[Len(df)].lap = 1 + Cardinality({i \in DOMAIN df : CrossingAt(df, i)})

\* a session whose first row lies within the threshold of the line without
\* being a crossing, and whose counter stays at one row and steps at another
C17_Witness ==
    /\ pc = "processed" /\ DistCol \in cols /\ NoRawLapColumn
    /\ Len(df) >= 3
    /\ df[1].dist < Dm(100) /\ df[1].lap = 1
    /\ ~CrossingAt(df, 2) /\ df[2].lap = 1
    /\ CrossingAt(df, 3) /\ df[3].lap = 2

\* C18: clean_lap_numbers, as run by preprocess_dataset on the raw table,
\* keeps the number of rows, keeps every row whose lap is not the sentinel
\* as it is, changes no column but lap, and returns the table unchanged
\* when the lap column or the distance channel is absent.
C18_CleanLapNumbersFrame ==
    pc = "preprocessed" =>
        LET c == cols \ {"time_normalized"}
            cleaned == CleanLapNumbers(c, raw)
        IN  /\ df \in NormalizeTimestamps(c, cleaned)
            /\ Len(cleaned) = Len(raw)
            /\ \A i \in DOMAIN raw :
                  /\ raw[i].lap # ERRONEOUS_LAP_NUMBER => cleaned[i] = raw[i]
                  /\ cleaned[i] = [raw[i] EXCEPT !.lap = cleaned[i].lap]
            /\ ("lap" \notin c \/ DistCol \notin c) => cleaned = raw

\* a repaired table in which a row kept a lap id that crossing detection
\* would not have given it, next to a sentinel row that was renumbered
C18_Witness ==
    /\ pc = "preprocessed" /\ {"lap", DistCol} \subseteq cols
    /\ \E i, j \in DOMAIN raw :
          /\ raw[i].lap # ERRONEOUS_LAP_NUMBER
          /\ raw[i].lap # 1 + CrossingsUpTo(raw, i)
          /\ raw[j].lap = ERRONEOUS_LAP_NUMBER
          /\ CleanLapNumbers(cols \ {"time_normalized"}, raw)[j].lap
                = 1 + CrossingsUpTo(raw, j)
    /\ \A i \in DOMAIN df : df[i].lap # ERRONEOUS_LAP_NUMBER

\* the rows of d are in ascending order of normalized time, rows without a
\* time last
TimeSorted(d) ==
    \A i, j \in DOMAIN d :
        i < j => \/ d[j].tn = NaT
                 \/ (d[i].tn # NaT /\ d[i].tn <= d[j].tn)

\* C19: wherever the pipeline evaluates crossing detection, the rows it is
\* evaluated on are in ascending normalized-time order: the raw table when
\* preprocess_dataset repaired its laps (lap and distance present, some row
\* with the sentinel), and the telemetry on which detect_laps ran.
C19_SortedBeforeCrossing ==
    /\ (/\ pc = "preprocessed" /\ {"lap", DistCol} \subseteq cols
        /\ \E i \in DOMAIN raw : raw[i].lap = ERRONEOUS_LAP_NUMBER)
       => TimeSorted(WithTimeNormalized(cols \ {"time_normalized"}, raw))
    /\ (pc = "processed" /\ DistCol \in cols) => TimeSorted(df)

\* the sector names enumerated for a track: those of its table, the default
\* name alone when it has none
Enumerated(t) ==
    IF Sectors(t) = << >> THEN {"S1.a"}
    ELSE {Sectors(t)[k].name : k \in DOMAIN Sectors(t)}

RowsOfLap(d, n) == {i \in DOMAIN d : d[i].lap = n}

\* one record per distinct lap id of the telemetry, in ascending lap order
OneRecordPerLap ==
    /\ {lap_times[k].lap : k \in DOMAIN lap_times} = {df[i].lap : i \in DOMAIN df}
    /\ \A k \in 2..Len(lap_times) : lap_times[k - 1].lap < lap_times[k].lap

\* C21: calculate_lap_times emits exactly one record per distinct lap id of
\* the rows, in ascending lap order, with lap_time the normalized time of
\* the group's last row minus that of its first; a group of one row has
\* lap_time 0, and on the time-sorted telemetry every lap_time is >= 0.
C21_LapAggregation ==
    pc = "processed" =>
        /\ OneRecordPerLap
        /\ \A k \in DOMAIN lap_times :
              LET rows == RowsOfLap(df, lap_times[k].lap)
                  first == df[SetMin(rows)]
                  last == df[SetMax(rows)]
              IN  /\ (first.tn # NaT /\ last.tn # NaT) =>
                        lap_times[k].lap_time = last.tn - first.tn
                  /\ Cardinality(rows) = 1 => lap_times[k].lap_time = 0
                  /\ lap_times[k].lap_time >= 0
                  /\ lap_times[k].records = Cardinality(rows)

\* the risk component the claim expects: 5.0 when none of its source
\* channels is in the telemetry, else the component of the result
ExpectedComponent(name, sources) ==
    IF sources \cap cols = {} \/ name \notin DOMAIN story["risk_index"].components
    THEN 5000
    ELSE story["risk_index"].components[name]

\* C22: each risk component is 5.0 when its source channel is missing, also
\* for telemetry to which the braking metrics were added without any
\* brake-pressure channel: the composite is the weighted sum of the expected
\* components (up to rounding), and 5.0 / Balanced when all three sources
\* are missing.
C22_RiskDefaults ==
    (pc = "risk" /\ Len(df) > 0) =>
        LET risk == story["risk_index"]
            composite ==
                4 * ExpectedComponent("braking_aggression", {"pbrake_f", "pbrake_r"})
                + 3 * ExpectedComponent("throttle_aggression", {"ath"})
                + 3 * ExpectedComponent("corner_variance", {"Speed"})
        IN  /\ risk.score * 1000 \in (composite - 500)..(composite + 520)
            /\ RiskChannels \cap cols = {} =>
                  risk.score = 50 /\ risk.rating = "Balanced"

\* C23: after calculate_braking_intensity every row's brake_intensity is the
\* mean of the front and rear pressure when both channels exist, the single
\* channel when one exists, else 0; and every row with brake_intensity >= 0,
\* 0 included, lies in exactly one of the zones None, Light, Heavy set by
\* the thresholds 20 and 50.
C23_BrakingClassificationTotal ==
    (pc \in {"metrics", "risk"} /\ "braking_zone" \in cols) =>
        \A i \in DOMAIN df :
            LET b == df[i].brake_intensity
            IN  /\ {"pbrake_f", "pbrake_r"} \subseteq cols =>
                      2 * b = df[i].pbrake_f + df[i].pbrake_r
                /\ ("pbrake_f" \in cols /\ "pbrake_r" \notin cols) => b = df[i].pbrake_f
                /\ ("pbrake_r" \in cols /\ "pbrake_f" \notin cols) => b = df[i].pbrake_r
                /\ {"pbrake_f", "pbrake_r"} \cap cols = {} => b = 0
                /\ b >= 0 => df[i].braking_zone \in {"None", "Light", "Heavy"}
                /\ (b >= 0 /\ b < 20) => df[i].braking_zone = "None"
                /\ (b > 20 /\ b < 50) => df[i].braking_zone = "Light"
                /\ b > 50 => df[i].braking_zone = "Heavy"

\* the laps (as rows of the lap table) that are more than 0.3 s faster than
\* the lap before them
Qualifying(lt) == {i \in 2..Len(lt) : lt[i - 1].lap_time - lt[i].lap_time > 30}

WindowTotal(lt, k) == lt[k].lap_time + lt[k + 1].lap_time + lt[k + 2].lap_time

\* the first row of the earliest window with the lowest mean lap time
BestWindow(lt) ==
    SetMin({k \in 1..(Len(lt) - 2) :
               \A j \in 1..(Len(lt) - 2) : WindowTotal(lt, k) <= WindowTotal(lt, j)})

\* C25: for three or more laps fastest_stint is the window of three laps
\* adjacent in lap order with the lowest mean lap time, the earliest on a
\* tie, and its start_lap and end_lap are the lap numbers of the first and
\* the third lap of the window.
C25_FastestStint ==
    ("performance_trajectory" \in DOMAIN story /\ Len(lap_times) >= 3) =>
        LET stint == story["performance_trajectory"].fastest_stint
            b == BestWindow(lap_times)
        IN  /\ stint.laps = 3
            /\ stint.total_time = WindowTotal(lap_times, b)
            /\ stint.start_lap = lap_times[b].lap
            /\ stint.end_lap = lap_times[b + 2].lap

\* the sector times of one sector name in the sector table
TimesOfSector(name) ==
    {sector_times[i].sector_time :
        i \in {j \in DOMAIN sector_times : sector_times[j].sector = name}}

\* C26: generate_sector_narrative returns one insight per distinct sector
\* name of the table, with range = max - min of the sector's times and
\* performance strength below 0.1 s, neutral below 0.3 s, weakness
\* otherwise; the list is in descending order of range, its first element
\* having the largest range of all sectors.
C26_SectorInsightOrdering ==
    pc = "insights" =>
        LET insights == story["sector_insights"]
        IN  /\ {insights[k].sector : k \in DOMAIN insights}
                  = {sector_times[i].sector : i \in DOMAIN sector_times}
            /\ \A k, l \in DOMAIN insights :
                  insights[k].sector = insights[l].sector => k = l
            /\ \A k \in DOMAIN insights :
                  LET times == TimesOfSector(insights[k].sector)
                      r == SetMax(times) - SetMin(times)
                  IN  /\ insights[k].range = r
                      /\ insights[k].performance =
                            (IF r < 10 THEN "strength"
                             ELSE IF r < 30 THEN "neutral" ELSE "weakness")
            /\ \A k \in 2..Len(insights) : insights[k - 1].range >= insights[k].range
            /\ \A k \in DOMAIN insights : insights[1].range >= insights[k].range

\* three insights, one of each kind, for a table whose first sector is the
\* most consistent
C26_Witness ==
    /\ pc = "insights"
    /\ Len(story["sector_insights"]) = 3
    /\ sector_times[1].sector = story["sector_insights"][3].sector
    /\ story["sector_insights"][1].performance = "weakness"
    /\ story["sector_insights"][2].performance = "neutral"
    /\ story["sector_insights"][3].performance = "strength"

\* the place of a rule in the order sector, consistency, risk, trajectory
RuleRank ==
    [sector |-> 1, consistency |-> 2, risk |-> 3, trajectory |-> 4, default |-> 5]

\* the largest range of a sector of the sector table exceeds 0.3 s
SectorRuleFires ==
    \E i, j \in DOMAIN sector_times :
        /\ sector_times[i].sector = sector_times[j].sector
        /\ sector_times[i].sector_time - sector_times[j].sector_time > 30

\* the ranks of the rules that fire on the analyses of the state
FiringRules ==
    (IF SectorRuleFires THEN {1} ELSE {})
    \cup (IF story["consistency_score"].score < 70 THEN {2} ELSE {})
    \cup (IF \/ story["risk_index"].score < 40
             \/ story["risk_index"].score > 80 /\ story["consistency_score"].score < 60
          THEN {3} ELSE {})
    \cup (IF story["performance_trajectory"].trend = "declining" THEN {4} ELSE {})

\* C27: generate_recommendations returns 1 to 3 strings, in rule order
\* (sector, consistency, risk, trajectory) with at most one string per rule:
\* the strings of the first three rules that fire, a fourth being dropped;
\* the positive-reinforcement string is returned exactly when no rule fires.
C27_RecommendationListShape ==
    pc = "advised" =>
        LET recs == story["recommendations"]
            ranks == [k \in DOMAIN recs |-> RuleRank[RuleOfString[recs[k]]]]
            kept == IF Cardinality(FiringRules) <= 3 THEN FiringRules
                    ELSE FiringRules \ {4}
        IN  /\ Len(recs) \in 1..3
            /\ \A k \in 2..Len(recs) : ranks[k - 1] < ranks[k]
            /\ FiringRules # {} => ranks = AscSeq(kept)
            /\ (\E k \in DOMAIN recs : recs[k] = "strong_performance")
                  <=> FiringRules = {}
            /\ FiringRules = {} => recs = <<"strong_performance">>

\* all four rules fire and the trajectory string is the one left out
C27_Witness ==
    /\ pc = "advised"
    /\ FiringRules = {1, 2, 3, 4}
    /\ story["recommendations"][1] = "focus_sector"
    /\ story["recommendations"][2] = "work_on_consistency"
    /\ story["recommendations"][3] \in {"reduce_risk", "explore_limits"}

\* C28: the moderate-aggression string is returned exactly when the risk
\* score is at least 8.0 and the consistency score below 6.0, so for every
\* session rated Very Aggressive with consistency below 6.0; otherwise the
\* explore-limits string is returned exactly when the risk score is below
\* 4.0.
C28_RiskRecommendationRule ==
    pc = "advised" =>
        LET recs == story["recommendations"]
            Returned(str) == \E k \in DOMAIN recs : recs[k] = str
            risk == story["risk_index"]
            consistency == story["consistency_score"]
            moderate == risk.score >= 80 /\ consistency.score < 60
        IN  /\ Returned("reduce_risk") <=> moderate
            /\ (risk.rating = "Very Aggressive" /\ consistency.score < 60)
                  => Returned("reduce_risk")
            /\ Returned("explore_limits") <=> (~moderate /\ risk.score < 40)

\* C28 with the boundary the code tests: the moderate-aggression string is
\* returned exactly when the risk score exceeds 8.0 and the consistency
\* score is below 6.0; otherwise the explore-limits string exactly when the
\* risk score is below 4.0.
C28_RiskRuleAbove8 ==
    pc = "advised" =>
        LET recs == story["recommendations"]
            Returned(str) == \E k \in DOMAIN recs : recs[k] = str
            risk == story["risk_index"]
            consistency == story["consistency_score"]
            moderate == risk.score > 80 /\ consistency.score < 60
        IN  /\ Returned("reduce_risk") <=> moderate
            /\ Returned("explore_limits") <=> (~moderate /\ risk.score < 40)

\* a session rated Very Aggressive with risk score 8.0 and consistency
\* below 6.0 that gets no risk recommendation
C28_VeryAggressiveUnadvised ==
    /\ pc = "advised"
    /\ story["risk_index"].rating = "Very Aggressive"
    /\ story["risk_index"].score = 80
    /\ story["consistency_score"].score < 60
    /\ \A k \in DOMAIN story["recommendations"] :
          RuleOfString[story["recommendations"][k]] # "risk"

\* C29: detect_laps trusts or replaces the lap column as a whole.  With a
\* distance channel and a lap column without sentinel the table is returned
\* unchanged; with a sentinel in any row, every row gets the crossing-detected
\* id 1 + (crossings at or before the row); without a distance channel the
\* table is returned as it is, or with lap = 1 in every row if it had no lap
\* column.  A second call returns its argument unchanged.
C29_LapColumnAsAWhole ==
    LET had_lap == ~NoRawLapColumn
        sentinel == \E i \in DOMAIN raw : raw[i].lap = ERRONEOUS_LAP_NUMBER
    IN  /\ pc = "detected" =>
            /\ (DistCol \in cols /\ had_lap /\ ~sentinel) => df = raw
            /\ (DistCol \in cols /\ sentinel) =>
                  df = [i \in DOMAIN raw |->
                           [raw[i] EXCEPT !.lap = 1 + CrossingsUpTo(raw, i)]]
            /\ (DistCol \notin cols /\ had_lap) => df = raw
            /\ (DistCol \notin cols /\ ~had_lap) =>
                  df = [i \in DOMAIN raw |-> [raw[i] EXCEPT !.lap = 1]]
        /\ pc = "redetected" => df = raw

\* a row with a valid lap id 2 renumbered 1 because another row carries the
\* sentinel
C29_Witness ==
    /\ pc = "detected"
    /\ DistCol \in cols
    /\ \E i, j \in DOMAIN raw :
          /\ raw[i].lap = ERRONEOUS_LAP_NUMBER
          /\ raw[j].lap = 2 /\ df[j].lap = 1

\* one sector record per lap, timed like the lap
OneSectorRecordPerLap ==
    /\ Len(sector_times) = Len(lap_times)
    /\ \A k \in DOMAIN lap_times :
          /\ sector_times[k].lap = lap_times[k].lap
          /\ sector_times[k].sector_time = lap_times[k].lap_time

\* C30: on the default track (no sector table) process_full_session yields
\* one sector record per lap, with the lap's lap_time as sector_time, and
\* find_optimal_lap then reports optimal_time = actual_best, potential_gain
\* 0 and no gap for every such session.
C30_DefaultTrackOptimalLap ==
    track = "default" =>
        /\ pc = "processed" => OneSectorRecordPerLap
        /\ pc = "narrated" =>
              /\ OneSectorRecordPerLap
              /\ story.at # "find_optimal_lap"
              /\ story.raised = "" =>
                    /\ story.optimal_lap.optimal_time = story.optimal_lap.actual_best
                    /\ story.optimal_lap.potential_gain = 0
                    /\ story.optimal_lap.gap_breakdown = << >>

\* C30 apart from the sessions on which find_optimal_lap raises (no lap
\* with a lap time)
C30_WhereOptimalLapReports ==
    track = "default" =>
        /\ pc = "processed" => OneSectorRecordPerLap
        /\ pc = "narrated" =>
              /\ OneSectorRecordPerLap
              /\ story.raised = "" =>
                    /\ story.optimal_lap.optimal_time = story.optimal_lap.actual_best
                    /\ story.optimal_lap.potential_gain = 0
                    /\ story.optimal_lap.gap_breakdown = << >>

\* a default-track session of two laps with a distance channel, for which
\* find_optimal_lap has reported
C30_Reported ==
    /\ pc = "narrated" /\ track = "default" /\ DistCol \in cols
    /\ story.raised = ""
    /\ Len(lap_times) = 2
    /\ story.optimal_lap.actual_best = 1
====
